---- MODULE Spec2Model ----
(***************************************************************************)
(* GiftScan: the scan tick of GiftScanner.run_full_scan (snapshot write)   *)
(* followed by SalesTracker.sync_all_listings (listing reconciliation and  *)
(* sale detection), over a database of three tables: market_snapshots,     *)
(* gift_listings (primary key nft_address) and gift_sales.                 *)
(* sync_all_listings is a coroutine: it gives way at each of its two       *)
(* SELECTs and at its commit, where another scanner on the same database   *)
(* can run.                                                                *)
(*                                                                         *)
(* The objects handed to the handlers carry the fields of their classes,   *)
(* and the read of a field an object does not have raises.                 *)
(* Time is the wall clock read by datetime.utcnow(), counted in units of   *)
(* one scan interval; HourUnits such units make timedelta(hours=1).        *)
(***************************************************************************)
EXTENDS Integers, Sequences, FiniteSets, Bags, TLC

VARIABLES
    clock,       \* the wall clock (datetime.utcnow())
    pc,          \* position of the scan loop: idle, fetch, sync, sleep, cancelled
    catalog,     \* gifts_catalog slugs (read-only for the scanner)
    tick,        \* number of the current scan cycle (ghost: the code only logs it)
    scan_start,  \* run_full_scan's local scan_start
    saved,       \* run_full_scan's local saved
    snapshots,   \* committed rows of market_snapshots
    listings,    \* committed rows of gift_listings: nft_address -> row
    sales,       \* committed rows of gift_sales (a bag: the table has no unique key but id)
    sync,        \* ghost: the last call of sync_all_listings that ended (its inputs and outcome)
    sessions,    \* scanner -> its call of sync_all_listings: where it is and what its session holds
    phase3,      \* ghost: the last run of phase 3: its clock reading, the row it set out to build, how it ended
    bulk_results,        \* run_full_scan's local bulk_results: source -> slug -> price
    individual_results,  \* run_full_scan's local individual_results: slug -> price or None
    calls,               \* ghost: the adapter calls of the tick and what each did
    _global_sem,         \* GiftScanner._global_sem: its free permits
    _source_sems,        \* GiftScanner._source_sems: source -> free permits
    queued,              \* source -> _fetch_single tasks that hold no semaphore yet
    waiting,             \* source -> tasks that hold _global_sem and wait for the source's
    in_flight,           \* source -> tasks inside parser.fetch_gift_price
    _is_running,         \* ContinuousScanner._is_running
    _task,               \* ContinuousScanner._task: the number of the loop task, 0 for None
    tasks,               \* the loop tasks created so far: where each is and what it logged
    total_scans,         \* ContinuousScanner.total_scans
    stop_waits,          \* the tasks that a suspended stop() awaits
    stop_called,         \* ghost: stop() was called since the last start()
    _buckets,            \* RateLimiter._buckets[key]: the grant timestamps, as ages
    _locks,              \* RateLimiter._locks[key]: the caller holding the lock, 0 if free
    callers,             \* the callers of acquire(key): where each is in __aenter__
    grants,              \* ghost: the ages of the grants of the last window
    retry_pc,            \* where the wrapper of retry_with_backoff is
    attempt,             \* the wrapper's loop variable
    delays,              \* ghost: the delays the wrapper has slept in this call
    history,             \* ghost: how each attempt of this call ended
    settings,            \* the settings the token is taken from
    _token_cache,        \* tma_auth._token_cache["portals"]: the cached token, 0 for none, and whether its TTL is over
    portals_pc,          \* where fetch_all_prices is
    collection,          \* the index of collection_name in portals_collection_names
    auth_token,          \* the local auth_token of fetch_all_prices, 0 for the empty string
    generated,           \* the tokens generated by Telethon so far
    requests,            \* ghost: the requests of this call of fetch_all_prices and their answers
    portals_results,     \* the local results of fetch_all_prices: the collections it holds floors of
    det_pc,              \* whether the call has been made and how it ended: idle, done, raised
    det_rows,            \* the latest snapshot rows of one slug that the call reads, in the order of the result
    det_fair,            \* what get_fair_value returns for each tier
    collected,           \* the calls of collect_opportunity that the call makes, in order
    det_raised,          \* ghost: the attribute whose lookup raised, the values the call would have been given and the groups entered
    rare_now,            \* datetime.utcnow() at the last call of check_and_alert, in hours
    _alerted,            \* RareFloorDetector._alerted: nft_address -> the time of its last alert
    rare_log,            \* ghost: the alerts returned so far, each with its time
    rare_last,           \* ghost: the last call: its time, what it read, the listings that qualified and the alerts it returned
    alert_now,           \* datetime.now(), in units of 8 hours
    sink,                \* whether BOT_TOKEN and TELEGRAM_CHAT_ID are configured
    _recent_alerts,      \* ArbitrageNotifier._recent_alerts: slug -> (buy_price, sell_price, timestamp)
    alert_count,         \* ArbitrageNotifier.alert_count
    published,           \* ghost: the deals delivered to the Telegram chat, in order
    alert_last,          \* ghost: the last call of alert_opportunity, how it ended and how the Telegram API answers a POST at that time
    tier_serial,         \* the serial handed to _get_rarity_tier
    tier_attributes,     \* the attributes handed to it
    tier_result,         \* what it returned, "none" before the first call
    conf_total,          \* total_count handed to _calculate_confidence
    conf_recent,         \* recent_count handed to it
    conf_days,           \* days_since_last handed to it
    conf_score,          \* the float it returned (NoScore before the first call)
    norm_in,             \* the name handed to GiftMapper.normalize, a sequence of characters
    norm_out,            \* the slug it returned
    norm_calls,          \* calls made so far: the second one is handed the result of the first
    digest_now,          \* datetime.utcnow() of the digest runs, in hours
    _last_digest_at,     \* MarketDigestService._last_digest_at, NoTime for None
    digests,             \* the hours at which send_digest ran
    digest_scans,        \* scan cycles completed in the digest runs
    digest_pc,           \* the scan loop of the digest runs: scan or sleep
    deals,               \* the deals table: deal_id -> row, NoDeal before create_deal
    db_sessions,         \* the sessions of the check-deposit requests: idle, or holding the Deal they loaded
    escrow_last,         \* ghost: the last check_deposit that ended, the row before it and after it
    memo_uuid,           \* the hex digits of the UUID that uuid.uuid4() returned
    memo,                \* the memo that _generate_memo returned, empty before the call
    alert_calls,         \* the call of alert_opportunity of each request: idle (with the deal and the end of its last call, a ghost), or suspended in the POST of a deal
    published_at         \* ghost: when each message of the overlapping calls reached the sink

\* the database, the clock and the position of the scan
scanVars == <<clock, pc, catalog, tick, scan_start, saved, snapshots, listings, sales, sync, sessions, phase3>>

\* the locals of phases 1 and 2 of run_full_scan
fetchVars == <<bulk_results, individual_results, calls>>

\* the semaphores of the per-item fetches and the tasks at them
semVars == <<_global_sem, _source_sems, queued, waiting, in_flight>>

\* the ContinuousScanner and its loop tasks
loopVars == <<_is_running, _task, tasks, total_scans, stop_waits, stop_called>>

\* one bucket of a RateLimiter and its callers
limVars == <<_buckets, _locks, callers, grants>>

\* one call of a function wrapped by retry_with_backoff
retryVars == <<retry_pc, attempt, delays, history>>

\* PortalsDirectParser.fetch_all_prices and the token cache of tma_auth
portalsVars == <<settings, _token_cache, portals_pc, collection, auth_token, generated, requests, portals_results>>

\* one call of GiftScanner._check_arbitrage_opportunities
detVars == <<det_pc, det_rows, det_fair, collected, det_raised>>

\* the RareFloorDetector over the ticks of one process
rareVars == <<rare_now, _alerted, rare_log, rare_last>>

\* the ArbitrageNotifier and the Telegram sink behind it
alertVars == <<alert_now, sink, _recent_alerts, alert_count, published, alert_last>>

\* one call of _get_rarity_tier
tierVars == <<tier_serial, tier_attributes, tier_result>>

\* the call of _calculate_confidence
confVars == <<conf_total, conf_recent, conf_days, conf_score>>

\* the calls of GiftMapper.normalize
normVars == <<norm_in, norm_out, norm_calls>>

\* the MarketDigestService and the scan loop around it
digestVars == <<digest_now, _last_digest_at, digests, digest_scans, digest_pc>>

\* the deals table and the database sessions of check_deposit
escrowVars == <<deals, db_sessions, escrow_last>>

\* one call of _generate_memo
memoVars == <<memo_uuid, memo>>

\* the overlapping calls of alert_opportunity
raceVars == <<alert_calls, published_at>>

\* the variables of the later parts
restVars == <<portalsVars, detVars, rareVars, alertVars, tierVars, confVars, normVars, digestVars, escrowVars, memoVars, raceVars>>

\* what the actions on portalsVars leave alone
notPortalsVars ==
    <<scanVars, fetchVars, semVars, loopVars, limVars, retryVars, detVars, rareVars, alertVars, tierVars, confVars, normVars, digestVars, escrowVars, memoVars, raceVars>>

\* what the actions on detVars leave alone
notDetVars ==
    <<scanVars, fetchVars, semVars, loopVars, limVars, retryVars, portalsVars, rareVars, alertVars, tierVars, confVars, normVars, digestVars, escrowVars, memoVars, raceVars>>

\* what the actions on rareVars leave alone
notRareVars ==
    <<scanVars, fetchVars, semVars, loopVars, limVars, retryVars, portalsVars, detVars, alertVars, tierVars, confVars, normVars, digestVars, escrowVars, memoVars, raceVars>>

\* what the actions on alertVars leave alone
notAlertVars ==
    <<scanVars, fetchVars, semVars, loopVars, limVars, retryVars, portalsVars, detVars, rareVars, tierVars, confVars, normVars, digestVars, escrowVars, memoVars, raceVars>>

\* what the actions on tierVars leave alone
notTierVars ==
    <<scanVars, fetchVars, semVars, loopVars, limVars, retryVars, portalsVars, detVars, rareVars, alertVars, confVars, normVars, digestVars, escrowVars, memoVars, raceVars>>

\* what the actions on confVars leave alone
notConfVars ==
    <<scanVars, fetchVars, semVars, loopVars, limVars, retryVars, portalsVars, detVars, rareVars, alertVars, tierVars, normVars, digestVars, escrowVars, memoVars, raceVars>>

\* what the actions on normVars leave alone
notNormVars ==
    <<scanVars, fetchVars, semVars, loopVars, limVars, retryVars, portalsVars, detVars, rareVars, alertVars, tierVars, confVars, digestVars, escrowVars, memoVars, raceVars>>

\* what the actions on digestVars leave alone
notDigestVars ==
    <<scanVars, fetchVars, semVars, loopVars, limVars, retryVars, portalsVars, detVars, rareVars, alertVars, tierVars, confVars, normVars, escrowVars, memoVars, raceVars>>

\* what the actions on escrowVars leave alone
notEscrowVars ==
    <<scanVars, fetchVars, semVars, loopVars, limVars, retryVars, portalsVars, detVars, rareVars, alertVars, tierVars, confVars, normVars, digestVars, memoVars, raceVars>>

\* what the actions on memoVars leave alone
notMemoVars ==
    <<scanVars, fetchVars, semVars, loopVars, limVars, retryVars, portalsVars, detVars, rareVars, alertVars, tierVars, confVars, normVars, digestVars, escrowVars, raceVars>>

\* what the actions on raceVars leave alone
notRaceVars ==
    <<scanVars, fetchVars, semVars, loopVars, limVars, retryVars, portalsVars, detVars, rareVars, alertVars, tierVars, confVars, normVars, digestVars, escrowVars, memoVars>>

\* what the overlapping calls of alert_opportunity leave alone
notAlertRaceVars ==
    <<scanVars, fetchVars, semVars, loopVars, limVars, retryVars, portalsVars, detVars, rareVars, tierVars, confVars, normVars, digestVars, escrowVars, memoVars>>

auxVars == <<fetchVars, semVars, loopVars, limVars, retryVars, restVars>>

\* what the retry wrapper leaves alone
notRetryVars == <<scanVars, fetchVars, semVars, loopVars, limVars, restVars>>

\* what the limiter leaves alone
notLimVars == <<scanVars, fetchVars, semVars, loopVars, retryVars, restVars>>

\* what start, stop and the loop task leave alone
notLoopVars == <<scanVars, fetchVars, semVars, limVars, retryVars, restVars>>

scanVarsButPc == <<clock, catalog, tick, scan_start, saved, snapshots, listings, sales, sync, sessions, phase3>>

vars == <<scanVars, auxVars>>

----------------------------------------------------------------------------
(* Bounds *)

\* the last clock reading of the reconciliation runs
MaxTime == 3
\* the last clock reading of the snapshot runs
MaxScanTime == 2
\* clock units in timedelta(hours=1)
HourUnits == 1
\* length of the list handed to sync_all_listings
MaxListings == 2
\* catalog slugs of the semaphore runs: one _fetch_single task per per-item
\* parser and slug (app/seeds.py seeds 107 slugs)
MaxSlugs == 52
\* loop tasks that start() creates in the restart runs
MaxTasks == 2
\* the longest scan cycle, in scan intervals
MaxElapsed == 2
\* the last value of total_scans
MaxScans == 2
\* RateLimiter(max_requests, window_sec) of the limiter runs
max_requests == 2
window_sec == 2
\* concurrent callers of acquire(key)
MaxCallers == 3
\* tokens that Telethon generates in the Portals runs
MaxTokens == 2
\* the last hour of the rare-at-floor runs
MaxRareTime == 5
\* the last clock reading of the alerter runs, in units of 8 hours
MaxAlertTime == 4
\* the largest total_count handed to _calculate_confidence
MaxSales == 12
\* the largest days_since_last handed to it: the lookback window
MaxLastDays == 30
\* pieces that a raw gift name is put together from
MaxChunks == 3
\* the last hour of the digest runs
MaxDigestTime == 13
\* the scan cycles counted in a digest run, the later ones counting as the last
MaxDigestScans == 8
\* deals of the escrow runs
MaxDeals == 2
\* check-deposit requests served at a time, each in its own session
MaxSessions == 2
\* gift-list requests served at a time, each calling alert_opportunity
MaxRequests == 2
\* calls of alert_opportunity that pass the threshold and the cooldown in a run
MaxAlerts == 3

----------------------------------------------------------------------------
(* Values *)

\* None of a nullable DateTime column / an unset timestamp
NoTime == -1

Addrs == {"id1", "id2"}
Prices == {0, 80, 95}
SnapPrices == {-1, 0, 80}
Slug == "plushpepe"
ForeignSlug == "notincatalog"
BulkSource == "GetGems"
ItemSource == "Fragment"

\* serial 0 stands for a missing serial (None): `not serial` is true of both
SerialOf(a) == IF a = "id1" THEN 1234 ELSE 0
NoAttrs == [k \in {} |-> "None"]
MarketOf(a) == IF a = "id1" THEN "GetGems" ELSE "Portals"
\* the tier stored on the row of an address
TierOf(a) == IF a = "id1" THEN "ultra_rare" ELSE "unknown"

\* An NFTListing: the fields of the dataclass that sync_all_listings reads
\* (gift_name and owner_address are read by nothing here)
NFTListing(a, p) ==
    [nft_address |-> a, gift_slug |-> Slug, serial_number |-> SerialOf(a),
     price_ton |-> p, marketplace |-> MarketOf(a)]

\* A GiftPrice: the four fields of the dataclass
GiftPrice(price, source, slug) ==
    [price |-> price, currency |-> "TON", source |-> source, slug |-> slug]

\* the exceptions of a read of an attribute the object does not have, and of a
\* keyword the constructor does not take
AttributeError == [raises |-> "AttributeError"]
TypeError == [raises |-> "TypeError"]
Exceptions == {AttributeError, TypeError}

\* `obj.name` succeeds for the fields of the object
HasAttr(obj, name) == name \in DOMAIN obj

Observations == {NFTListing(a, p) : a \in Addrs, p \in Prices}

ListingLists == UNION {[1..n -> Observations] : n \in 0..MaxListings}

\* the lists of the snapshot runs: nothing listed, or id1 listed at 80
FewListingLists == {<< >>, <<NFTListing("id1", 80)>>}

----------------------------------------------------------------------------
(* sales_tracker._get_rarity_tier *)

RECURSIVE DigitSet(_)
\* set(str(serial)) for a non-negative serial
DigitSet(n) == IF n < 10 THEN {n} ELSE {n % 10} \cup DigitSet(n \div 10)

AttrGet(attributes, key) ==
    IF key \in DOMAIN attributes THEN attributes[key] ELSE "None"

\* a serial that is None
NoSerial == -1

\* `if not serial`: true of None and of 0
_get_rarity_tier(serial, attributes) ==
    IF serial = NoSerial \/ serial = 0 THEN "unknown"
    ELSE IF serial < 100 THEN "ultra_rare"
    ELSE IF DOMAIN attributes # {} /\ AttrGet(attributes, "Backdrop") = "Black" THEN "ultra_rare"
    ELSE IF serial < 1000 THEN "rare"
    ELSE IF serial \in {777, 420, 1234, 5555, 6969, 8888} THEN "rare"
    ELSE IF Cardinality(DigitSet(serial)) = 1 THEN "rare"
    ELSE IF serial < 5000 THEN "uncommon"
    ELSE "common"

TierInit ==
    /\ tier_serial = NoSerial
    /\ tier_attributes = NoAttrs
    /\ tier_result = "none"

----------------------------------------------------------------------------
(* sales_tracker._calculate_confidence in the floats of Python: IEEE 754
   doubles, every division, sum and difference rounded to the nearest double,
   ties to the even one. A magnitude is counted in units of 2^-56, the
   spacing of the doubles in [1/16, 1/8), and held in three limbs of 20 bits:
   <<a, b, c>> is a * 2^40 + b * 2^20 + c. The quotients, sums and
   differences of _calculate_confidence are 0 or at least 1/16 before
   rounding, or multiples of 2^-56 below 1/8, which are doubles. *)

Min(a, b) == IF a < b THEN a ELSE b

Max(a, b) == IF a > b THEN a ELSE b

Limb == 2^20

\* the limbs of a * 2^40 + b * 2^20 + c for b, c >= 0 of any size
Carry(a, b, c) ==
    <<a + (b + c \div Limb) \div Limb, (b + c \div Limb) % Limb, c % Limb>>

\* m < n
LessLimbs(m, n) ==
    \/ m[1] < n[1]
    \/ m[1] = n[1] /\ m[2] < n[2]
    \/ m[1] = n[1] /\ m[2] = n[2] /\ m[3] < n[3]

\* m + n
AddLimbs(m, n) == Carry(m[1] + n[1], m[2] + n[2], m[3] + n[3])

\* m - n for m >= n
SubLimbs(m, n) == Carry(m[1] - n[1] - 1, m[2] - n[2] + Limb - 1, m[3] - n[3] + Limb)

\* the spacing of the doubles at m, in units: 1 below 2^53 units (1/8), 2
\* below 2^54, and so on, u or more
RECURSIVE Spacing(_, _)
Spacing(m, u) == IF m[1] < u * 2^13 THEN u ELSE Spacing(m, 2 * u)

\* the double nearest to m + rem/d units (0 <= rem < d), of two nearest ones
\* the one whose last bit is 0
Round(m, rem, d) ==
    LET u == Spacing(m, 1)
        low == m[3] % u
        twice == 2 * (low * d + rem)
        odd == (m[3] \div u) % 2 = 1
    IN  IF twice > u * d \/ (twice = u * d /\ odd)
        THEN Carry(m[1], m[2], m[3] - low + u)
        ELSE <<m[1], m[2], m[3] - low>>

\* 0.0
Zero == [neg |-> FALSE, m |-> <<0, 0, 0>>]

\* n / d for an int n >= 0 and a float d that is a whole number, and the
\* literal that is written as the decimal n/d: by long division, rounded
Fdiv(n, d) ==
    LET a == n * 2^16
        b == (a % d) * Limb
        c == (b % d) * Limb
    IN  [neg |-> FALSE, m |-> Round(<<a \div d, b \div d, c \div d>>, c % d, d)]

\* 1.0
FloatOne == Fdiv(1, 1)

\* x + y for x, y >= 0
Fadd(x, y) == [neg |-> FALSE, m |-> Round(AddLimbs(x.m, y.m), 0, 1)]

\* x - y for x, y >= 0
Fsub(x, y) ==
    IF LessLimbs(x.m, y.m) THEN [neg |-> TRUE, m |-> Round(SubLimbs(y.m, x.m), 0, 1)]
    ELSE [neg |-> FALSE, m |-> Round(SubLimbs(x.m, y.m), 0, 1)]

\* x < y
Flt(x, y) ==
    IF x.neg /\ y.neg THEN LessLimbs(y.m, x.m)
    ELSE IF x.neg \/ y.neg THEN x.neg
    ELSE LessLimbs(x.m, y.m)

\* min(x, y) and max(x, y) of Python: the first argument unless the second
\* is smaller, or larger
Fmin(x, y) == IF Flt(y, x) THEN y ELSE x

Fmax(x, y) == IF Flt(x, y) THEN y ELSE x

\* the division written upside down: min(10.0 / total_count, 1.0)
BaseInverted(total_count) == Fmin(Fdiv(10, total_count), FloatOne)

\* base = min(total_count / 10.0, 1.0)
Base(total_count) == Fmin(Fdiv(total_count, 10), FloatOne)

\* recency_boost = min(recent_count / 3.0, 0.3)
RecencyBoost(recent_count) == Fmin(Fdiv(recent_count, 3), Fdiv(3, 10))

\* the penalty without its cap of 0.4
StalenessUncapped(days_since_last) ==
    IF days_since_last > 14 THEN Fdiv(days_since_last - 14, 16) ELSE Zero

\* staleness_penalty = min((days_since_last - 14) / 16.0, 0.4) past 14 days
StalenessPenalty(days_since_last) ==
    IF days_since_last > 14
    THEN Fmin(Fdiv(days_since_last - 14, 16), Fdiv(4, 10))
    ELSE Zero

\* max(0.0, min(1.0, score))
Clip(score) == Fmax(Zero, Fmin(FloatOne, score))

\* score = base + recency_boost - staleness_penalty, the sum first
_calculate_confidence(total_count, recent_count, days_since_last) ==
    IF total_count = 0 THEN Zero
    ELSE Clip(Fsub(Fadd(Base(total_count), RecencyBoost(recent_count)),
                   StalenessPenalty(days_since_last)))

\* no score yet
NoScore == [neg |-> FALSE, m |-> << >>]

ConfInit ==
    /\ conf_total = 0
    /\ conf_recent = 0
    /\ conf_days = 0
    /\ conf_score = NoScore

----------------------------------------------------------------------------
(* normalization/mapper.py: GiftMapper.normalize, names as sequences of
   characters *)

Letters ==
    {"a", "b", "c", "d", "e", "f", "g", "h", "i", "j", "k", "l", "m",
     "n", "o", "p", "q", "r", "s", "t", "u", "v", "w", "x", "y", "z"}

Digits == {"0", "1", "2", "3", "4", "5", "6", "7", "8", "9"}

\* `\s`
Whitespace == {" "}

\* str.lower() of one character, for the capitals of the names of the runs
Lower(c) ==
    CASE c = "N" -> "n" [] c = "F" -> "f" [] c = "T" -> "t"
      [] c = "G" -> "g" [] c = "I" -> "i" [] OTHER -> c

LowerAll(s) == [i \in 1..Len(s) |-> Lower(s[i])]

\* the length of the longest prefix of s made of characters of cs
RECURSIVE Run(_, _)
Run(s, cs) ==
    IF s # << >> /\ Head(s) \in cs THEN 1 + Run(Tail(s), cs) ELSE 0

Drop(s, n) == SubSeq(s, n + 1, Len(s))

\* str.strip()
StripLeft(s) == Drop(s, Run(s, Whitespace))

RECURSIVE Reverse(_)
Reverse(s) == IF s = << >> THEN << >> ELSE Append(Reverse(Tail(s)), Head(s))

Strip(s) == Reverse(StripLeft(Reverse(StripLeft(s))))

StartsWith(s, w) == Len(s) >= Len(w) /\ SubSeq(s, 1, Len(w)) = w

\* the length of the match of `\s*<token>\s*` at the start of s, 0 if none
TokenMatch(s, token) ==
    LET lead == Run(s, Whitespace)
        rest == Drop(s, lead)
    IN  IF StartsWith(rest, token)
        THEN lead + Len(token) + Run(Drop(rest, Len(token)), Whitespace)
        ELSE 0

\* the length of the match of `#\d+` at the start of s, 0 if none
SerialMatch(s) ==
    IF s # << >> /\ Head(s) = "#" /\ Run(Tail(s), Digits) > 0
    THEN 1 + Run(Tail(s), Digits)
    ELSE 0

\* the length of the match of `\(\d+\)` at the start of s, 0 if none
ParenMatch(s) ==
    LET d == IF s # << >> /\ Head(s) = "(" THEN Run(Tail(s), Digits) ELSE 0
    IN  IF d > 0 /\ Len(s) >= d + 2 /\ s[d + 2] = ")" THEN d + 2 ELSE 0

\* REMOVE_PATTERNS, each with the length of its match at the start of a string
NoiseTokens == <<<<"n", "f", "t">>, <<"g", "i", "f", "t">>, <<"t", "e", "l", "e", "g", "r", "a", "m">>>>

PatternMatch(k, s) ==
    IF k <= Len(NoiseTokens) THEN TokenMatch(s, NoiseTokens[k])
    ELSE IF k = Len(NoiseTokens) + 1 THEN SerialMatch(s)
    ELSE ParenMatch(s)

REMOVE_PATTERNS == 1..(Len(NoiseTokens) + 2)

\* re.sub(pattern, " ", s): the matches from left to right, none overlapping
RECURSIVE Sub(_, _)
Sub(k, s) ==
    IF s = << >> THEN << >>
    ELSE LET m == PatternMatch(k, s)
         IN  IF m > 0 THEN <<" ">> \o Sub(k, Drop(s, m))
             ELSE <<Head(s)>> \o Sub(k, Tail(s))

\* `for pattern in cls.REMOVE_PATTERNS`, in the order of the list
RECURSIVE SubAll(_, _)
SubAll(k, s) ==
    IF k \notin REMOVE_PATTERNS THEN s ELSE SubAll(k + 1, Sub(k, s))

Keep(s, cs) == SelectSeq(s, LAMBDA c : c \in cs)

MANUAL_OVERRIDES ==
    {<<<<"b", "l", "u", "e", "s", "t", "a", "r", "d", "e", "l", "u", "x", "e">>, <<"b", "l", "u", "e", "s", "t", "a", "r">>>>,
     <<<<"r", "e", "d", "b", "a", "l", "l", "o", "o", "n", "n", "f", "t">>, <<"r", "e", "d", "b", "a", "l", "l", "o", "o", "n">>>>,
     <<<<"g", "r", "e", "e", "n", "c", "l", "o", "v", "e", "r", "n", "f", "t", "g", "i", "f", "t">>, <<"g", "r", "e", "e", "n", "c", "l", "o", "v", "e", "r">>>>}

Override(s) ==
    IF \E o \in MANUAL_OVERRIDES : o[1] = s
    THEN (CHOOSE o \in MANUAL_OVERRIDES : o[1] = s)[2]
    ELSE s

normalize(raw_name) ==
    IF raw_name = << >> THEN << >>
    ELSE LET lowered  == Strip(LowerAll(raw_name))
             stripped == SubAll(1, lowered)
             alnum    == Keep(stripped, Letters \cup Digits \cup Whitespace)
             joined   == Keep(alnum, Letters \cup Digits)
         IN  Override(joined)

NormInit ==
    /\ norm_in = << >>
    /\ norm_out = << >>
    /\ norm_calls = 0

----------------------------------------------------------------------------
(* digest.py: MarketDigestService, time in hours *)

\* market_digest = MarketDigestService(digest_interval_hours=6)
digest_interval_hours == 6

\* should_send: no digest yet, or the interval has elapsed
should_send(last, now) ==
    last = NoTime \/ now - last >= digest_interval_hours

DigestInit ==
    /\ digest_now = 0
    /\ _last_digest_at = NoTime
    /\ digests = << >>
    /\ digest_scans = 0
    /\ digest_pc = "scan"

----------------------------------------------------------------------------
(* escrow.py: deals and check_deposit *)

DealIds == 1..MaxDeals

SessionIds == 1..MaxSessions

Sides == {"initiator", "counterparty"}

\* no row of that deal_id
NoDeal ==
    [status |-> "none", is_initiator_deposited |-> FALSE,
     is_counterparty_deposited |-> FALSE]

\* Deal(status="created", ...): the deposit flags default to False
NewDeal ==
    [status |-> "created", is_initiator_deposited |-> FALSE,
     is_counterparty_deposited |-> FALSE]

IdleSession == [pc |-> "idle", deal_id |-> 0, side |-> "initiator", deal |-> NoDeal]

NoCheck == [deal_id |-> 0, side |-> "initiator", outcome |-> "none",
            before |-> NoDeal, after |-> NoDeal]

\* `if deal.status in ("completed", "cancelled")`
Closed(deal) == deal.status \in {"completed", "cancelled"}

\* the flag of the side is set on the loaded Deal
Deposited(deal, side) ==
    IF side = "initiator"
    THEN [deal EXCEPT !.is_initiator_deposited = TRUE]
    ELSE [deal EXCEPT !.is_counterparty_deposited = TRUE]

\* "Advance status"
AdvanceStatus(deal) ==
    IF deal.is_initiator_deposited /\ deal.is_counterparty_deposited
    THEN [deal EXCEPT !.status = "completed"]
    ELSE IF deal.is_initiator_deposited
    THEN [deal EXCEPT !.status = "waiting_deposit"]
    ELSE IF deal.is_counterparty_deposited
    THEN [deal EXCEPT !.status = "processing"]
    ELSE deal

\* session.commit(): the UPDATE sets the attributes that the session changed
\* on the Deal it loaded, and leaves the others of the row as they are
Flush(row, loaded, changed) ==
    [a \in DOMAIN row |-> IF changed[a] # loaded[a] THEN changed[a] ELSE row[a]]

EscrowInit ==
    /\ deals = [d \in DealIds |-> NoDeal]
    /\ db_sessions = [s \in SessionIds |-> IdleSession]
    /\ escrow_last = NoCheck

----------------------------------------------------------------------------
(* escrow.py: _generate_memo *)

\* str.upper() left out
UpperNever(c) == c

\* str.upper() of a hexadecimal digit
Upper(c) ==
    CASE c = "a" -> "A" [] c = "b" -> "B" [] c = "c" -> "C"
      [] c = "d" -> "D" [] c = "e" -> "E" [] c = "f" -> "F" [] OTHER -> c

\* uuid.UUID('12345678-1234-5678-1234-567812345678').hex, of test_generate_memo
TestUuidHex ==
    <<"1", "2", "3", "4", "5", "6", "7", "8", "1", "2", "3", "4", "5", "6", "7", "8", "1", "2", "3", "4", "5", "6", "7", "8", "1", "2", "3", "4", "5", "6", "7", "8">>

\* `.hex[:12]`
HexPrefix(hex) == SubSeq(hex, 1, 12)

\* f"GS-{uuid.uuid4().hex[:12].upper()}"
_generate_memo(hex) ==
    <<"G", "S", "-">> \o [i \in 1..Len(HexPrefix(hex)) |-> Upper(HexPrefix(hex)[i])]

MemoInit ==
    /\ memo_uuid = << >>
    /\ memo = << >>

----------------------------------------------------------------------------
(* notifications.py: alert_opportunity called by overlapping requests *)

RequestIds == 1..MaxRequests

\* a request that is not inside alert_opportunity
NoCall == [pc |-> "idle", deal |-> 0, ended |-> "none"]

RaceInit ==
    /\ alert_calls = [r \in RequestIds |-> NoCall]
    /\ published_at = << >>

----------------------------------------------------------------------------
(* SalesTracker.sync_all_listings: the work done in the session *)

\* select(GiftListing) without the sold_at filter
ActiveDbUnfiltered(tbl) == tbl

\* active_db: the rows with sold_at IS NULL, keyed by nft_address
ActiveDb(tbl) ==
    [a \in {x \in DOMAIN tbl : tbl[x].sold_at = NoTime} |-> tbl[a]]

\* inbound: the listings keyed by nft_address, the last one of an address wins
Inbound(lst) ==
    [a \in {lst[i].nft_address : i \in DOMAIN lst} |->
        lst[CHOOSE i \in DOMAIN lst :
                /\ lst[i].nft_address = a
                /\ \A j \in DOMAIN lst : lst[j].nft_address = a => j <= i]]

\* already_sold: the addresses with a sale detected at or after now - 1 hour
AlreadySold(sls, now) ==
    {s.nft_address : s \in {x \in BagToSet(sls) : x.detected_at >= now - HourUnits}}

\* the rows the first loop does not skip
SoldAddrs(active_db, inbound, already_sold) ==
    {a \in DOMAIN active_db :
        /\ ~(a \in DOMAIN inbound \/ a \in already_sold)
        /\ ~(active_db[a].price_ton <= 0)}

\* the GiftSale added for a disappeared row
GiftSale(a, db_row, now) ==
    [gift_slug |-> db_row.gift_slug, nft_address |-> a,
     serial_number |-> db_row.serial_number, rarity_tier |-> db_row.rarity_tier,
     sale_price_ton |-> db_row.price_ton, marketplace |-> db_row.marketplace,
     detected_at |-> now]

\* the first loop with neither the re-run guard nor the sold_at stamp
DisappearedNoGuard(active_db, inbound, already_sold, now) ==
    LET sold == {a \in DOMAIN active_db :
                    a \notin DOMAIN inbound /\ ~(active_db[a].price_ton <= 0)}
    IN  [rows |-> active_db,
         sold |-> sold,
         new_sales |-> SetToBag({GiftSale(a, active_db[a], now) : a \in sold})]

\* "Disappeared -> sold": the rows of active_db after the first loop, and the
\* sales it adds to the session
Disappeared(active_db, inbound, already_sold, now) ==
    LET sold == SoldAddrs(active_db, inbound, already_sold)
    IN  [rows |-> [a \in DOMAIN active_db |->
                      IF a \in sold THEN [active_db[a] EXCEPT !.sold_at = now]
                      ELSE active_db[a]],
         sold |-> sold,
         new_sales |-> SetToBag({GiftSale(a, active_db[a], now) : a \in sold})]

\* the update of a row that is in active_db and in inbound
UpdateRow(row, listing, now) ==
    [row EXCEPT !.last_seen_at = now, !.price_ton = listing.price_ton]

\* the GiftListing built for an address that is not in active_db: the tier is
\* computed from listing.serial_number and listing.attributes, and the read of
\* an attribute the listing does not have raises before the row is built
GiftListing(listing, now) ==
    IF ~HasAttr(listing, "attributes") THEN AttributeError
    ELSE [nft_address |-> listing.nft_address, gift_slug |-> listing.gift_slug,
          serial_number |-> listing.serial_number,
          rarity_tier |-> _get_rarity_tier(listing.serial_number, listing.attributes),
          price_ton |-> listing.price_ton, marketplace |-> listing.marketplace,
          first_seen_at |-> now, last_seen_at |-> now, sold_at |-> NoTime]

\* a row of gift_listings that is active: the columns of the table
ListedRow(a, p, seen) ==
    [nft_address |-> a, gift_slug |-> Slug, serial_number |-> SerialOf(a),
     rarity_tier |-> TierOf(a), price_ton |-> p, marketplace |-> MarketOf(a),
     first_seen_at |-> seen, last_seen_at |-> seen, sold_at |-> NoTime]

\* "New or updated listings": the rows of active_db after the second loop
Updated(rows, inbound, now) ==
    [a \in DOMAIN rows |->
        IF a \in DOMAIN inbound THEN UpdateRow(rows[a], inbound[a], now) ELSE rows[a]]

\* the addresses the second loop adds a new GiftListing for
Inserted(active_db, inbound) == DOMAIN inbound \ DOMAIN active_db

\* the two loops of sync_all_listings over what the call has read: whether
\* the second one raised, and otherwise what the session holds when commit is
\* called: the rows as it loaded them and as the loops have set them, the rows
\* and the sales it has added
Pending(active_db, already_sold, inbound, now) ==
    LET first    == Disappeared(active_db, inbound, already_sold, now)
        rows     == Updated(first.rows, inbound, now)
        inserted == Inserted(active_db, inbound)
        raised   == \E a \in inserted : GiftListing(inbound[a], now) \in Exceptions
        added    == IF raised THEN {} ELSE inserted
    IN  [raised    |-> raised,
         loaded    |-> active_db,
         rows      |-> rows,
         added     |-> [a \in added |-> GiftListing(inbound[a], now)],
         new_sales |-> first.new_sales]

\* the flush of the session: an INSERT of an nft_address that gift_listings
\* already holds violates the primary key
IntegrityError(tbl, inserted) == inserted \cap DOMAIN tbl # {}

\* the flush of the session into gift_listings as it is at the commit: the
\* UPDATE of a loaded row sets the columns that the session changed, on the
\* row as the table holds it now, and the added rows are inserted
FlushListings(tbl, pending) ==
    [a \in DOMAIN tbl \cup DOMAIN pending.added |->
        IF a \in DOMAIN pending.added THEN pending.added[a]
        ELSE IF a \in DOMAIN pending.rows
        THEN Flush(tbl[a], pending.loaded[a], pending.rows[a])
        ELSE tbl[a]]

\* a failed commit that keeps the sales it had flushed
CommitKeepsSales(db, pending, ok) ==
    IF ok THEN [listings |-> FlushListings(db.listings, pending),
                sales |-> db.sales (+) pending.new_sales]
    ELSE [listings |-> db.listings, sales |-> db.sales (+) pending.new_sales]

\* session.commit(): all of the session's changes, or on failure none
Commit(db, pending, ok) ==
    IF ok THEN [listings |-> FlushListings(db.listings, pending),
                sales |-> db.sales (+) pending.new_sales]
    ELSE db

----------------------------------------------------------------------------
(* GiftScanner.run_full_scan, phase 3: the snapshot rows of one tick *)

\* what a bulk adapter returns: slug -> price ({} when the fetch raised)
BulkResults == UNION {[S -> SnapPrices] : S \in SUBSET {Slug, ForeignSlug}}

\* what the per-item adapter returns for the catalog's slugs: slug -> price,
\* a slug it has no price for (None, or the call raised) being absent
ItemResults == UNION {[S -> SnapPrices] : S \in SUBSET {Slug}}

\* a filter that lets a zero price through
PriceValidOrZero(price) == price >= 0

\* `gp.price > 0`
PriceValid(price) == price > 0

\* bulk rows stamped with the time the scan started
RowTimestampPerPhase(kind, t_start, t_scanned) ==
    IF kind = "bulk" THEN t_start ELSE t_scanned

\* `scanned_at=scanned_at`: every row carries the one clock reading of phase 3
RowTimestamp(kind, t_start, t_scanned) == t_scanned

\* the mapped attributes of MarketSnapshot
SnapshotColumns ==
    {"id", "gift_slug", "source", "price_amount", "currency", "serial_number",
     "attributes", "scanned_at"}

\* the attributes of the price and the keywords of the constructor in
\* `MarketSnapshot(gift_slug=slug, ..., attributes=gp.attributes)`
SnapshotReads == {"price", "currency", "nft_address", "serial", "attributes"}
SnapshotKeywords ==
    {"gift_slug", "source", "price_amount", "currency", "scanned_at",
     "nft_address", "serial_number", "attributes"}

\* the row phase 3 builds of a price: the read of an attribute the price does
\* not have raises, and so does a keyword that is no mapped attribute
\* (tick is a ghost column: the scan cycle that built the row)
MarketSnapshot(slug, source, gp, at, t) ==
    IF ~(\A name \in SnapshotReads : HasAttr(gp, name)) THEN AttributeError
    ELSE IF ~(SnapshotKeywords \subseteq SnapshotColumns) THEN TypeError
    ELSE [gift_slug |-> slug, source |-> source, price_amount |-> gp.price,
          scanned_at |-> at, tick |-> t]

\* the entries of a bulk result that pass `slug in slugs and gp.price > 0`
BulkValid(prices, slugs) ==
    {x \in DOMAIN prices : x \in slugs /\ PriceValid(prices[x])}

\* the entries of the per-item results that pass `gp is not None and gp.price > 0`
ItemValid(prices) == {x \in DOMAIN prices : PriceValid(prices[x])}

BulkRows(prices, slugs, t_start, t_scanned, t) ==
    {MarketSnapshot(slug, BulkSource, GiftPrice(prices[slug], BulkSource, slug),
                    RowTimestamp("bulk", t_start, t_scanned), t) :
        slug \in BulkValid(prices, slugs)}

ItemRows(prices, t_start, t_scanned, t) ==
    {MarketSnapshot(slug, ItemSource, GiftPrice(prices[slug], ItemSource, slug),
                    RowTimestamp("item", t_start, t_scanned), t) :
        slug \in ItemValid(prices)}

\* ghost: the constructor call of a valid price
SnapshotCall(kind, source, slug, price, t_start, t_scanned) ==
    [source |-> source, slug |-> slug, price |-> price,
     scanned_at |-> RowTimestamp(kind, t_start, t_scanned)]

BulkCalls(bulk, slugs, t_start, t_scanned) ==
    {SnapshotCall("bulk", BulkSource, x, bulk[x], t_start, t_scanned) :
        x \in BulkValid(bulk, slugs)}

ItemCalls(item, t_start, t_scanned) ==
    {SnapshotCall("item", ItemSource, x, item[x], t_start, t_scanned) :
        x \in ItemValid(item)}

\* ghost: the calls phase 3 can reach first: the bulk loop runs before the
\* per-item loop, each over a dict in the order of its insertions
FirstCalls(bulk, item, slugs, t_start, t_scanned) ==
    IF BulkValid(bulk, slugs) # {} THEN BulkCalls(bulk, slugs, t_start, t_scanned)
    ELSE ItemCalls(item, t_start, t_scanned)

\* phase 3 before the commit: the rows added to the session, or the exception
\* of the first row, which leaves run_full_scan with nothing added
Phase3(bulk, item, slugs, t_start, t_scanned, t) ==
    LET rows == BulkRows(bulk, slugs, t_start, t_scanned, t)
                \cup ItemRows(item, t_start, t_scanned, t)
        raised == rows \cap Exceptions # {}
    IN  [raised |-> raised,
         rows   |-> IF raised THEN {} ELSE rows,
         saved  |-> IF raised THEN 0 ELSE Cardinality(rows),
         next   |-> IF raised THEN "sleep" ELSE "sync"]

\* ghost: phase 3 has not run yet
NoPhase3 == [tick |-> 0, scanned_at |-> NoTime, built |-> {}, raised |-> FALSE,
             skipped |-> FALSE]

\* adapters that return nothing
NoBulkResults == {[x \in {} |-> 0]}
NoItemResults == {[x \in {} |-> 0]}

\* `if saved: await session.commit()`
CommitSnapshots(tbl, rows) == tbl \cup rows

----------------------------------------------------------------------------
(* GiftScanner.run_full_scan, phases 1 and 2: the adapter calls of one tick *)

Slug2 == "durovscap"

\* nothing fetched yet
NoPrices == [x \in {} |-> 0]
NoBulk == [x \in {} |-> NoPrices]

\* what fetch_all_prices does: it returns prices, or raises having gathered prices
BulkOutcomes ==
    {[raised |-> r, prices |-> p] :
        r \in BOOLEAN, p \in UNION {[S -> {80}] : S \in SUBSET {Slug, ForeignSlug}}}

\* what fetch_gift_price does: it returns None, returns a price, or raises
ItemOutcomes ==
    {[raised |-> TRUE, found |-> FALSE, price |-> 0],
     [raised |-> FALSE, found |-> FALSE, price |-> 0],
     [raised |-> FALSE, found |-> TRUE, price |-> 0],
     [raised |-> FALSE, found |-> TRUE, price |-> 80]}

\* phase 1, one parser: `prices = await parser.fetch_all_prices()` in its
\* try/except; a failure leaves {} for the source and the scan goes on
BulkFetch(outcome) ==
    [results |-> IF outcome.raised THEN NoPrices ELSE outcome.prices,
     next    |-> "gather"]

\* _fetch_single: the adapter's result, None when it raised
_fetch_single(outcome) ==
    IF outcome.raised THEN [found |-> FALSE, price |-> 0]
    ELSE [found |-> outcome.found, price |-> outcome.price]

\* `individual_results[source_name][slug] = result`, None being an absent price
GatherResult(results, slug, result) ==
    IF result.found
    THEN [x \in DOMAIN results \cup {slug} |-> IF x = slug THEN result.price ELSE results[x]]
    ELSE results

\* ghost: the record of one adapter call, slug "*" for a bulk call
AdapterCall(source, slug, raised, obs) ==
    [source |-> source, slug |-> slug, raised |-> raised, obs |-> obs]

----------------------------------------------------------------------------
(* GiftScanner._fetch_single: the global and the per-source semaphore *)

GLOBAL_CONCURRENCY == 50

\* source_name -> supports_bulk of the parsers of PARSER_REGISTRY
PARSER_REGISTRY ==
    [Fragment |-> FALSE, GetGems |-> TRUE, MRKT |-> TRUE, Portals |-> TRUE,
     Tonnel |-> TRUE]

\* individual_parsers: `[p for p in self.parsers if not p.supports_bulk]`
ItemSources == {s \in DOMAIN PARSER_REGISTRY : ~PARSER_REGISTRY[s]}

\* PER_SOURCE_CONCURRENCY.get(p.source_name, 5)
PER_SOURCE_CONCURRENCY(source) == IF source = "Fragment" THEN 3 ELSE 5

\* a semaphore that lets one task too many in
SemFreeOffByOne(value) == value >= 0

\* asyncio.Semaphore: acquire goes on only while the value is positive
SemFree(value) == value > 0

\* a release that does not hand the permit back
SemReleaseLeaks(value) == value

\* asyncio.Semaphore.release, at the end of `async with`
SemRelease(value) == value + 1

\* the tasks of all per-item sources
RECURSIVE SumOver(_, _)
SumOver(f, S) ==
    IF S = {} THEN 0
    ELSE LET s == CHOOSE x \in S : TRUE IN f[s] + SumOver(f, S \ {s})

Total(f) == SumOver(f, ItemSources)

NoTasks == [s \in ItemSources |-> 0]

SemInit ==
    /\ _global_sem = GLOBAL_CONCURRENCY
    /\ _source_sems = [s \in ItemSources |-> PER_SOURCE_CONCURRENCY(s)]
    /\ queued = NoTasks
    /\ waiting = NoTasks
    /\ in_flight = NoTasks

----------------------------------------------------------------------------
(* ContinuousScanner: start, stop and the loop task *)

\* self.scan_interval, the unit of the loop's time
scan_interval == 1

\* a task made by asyncio.create_task(self._scan_loop()), not yet run; elapsed
\* is the time its cycle has taken, waited the time it delays before the cycle,
\* log the cycle's last log line; ghosts: scanned (run_full_scan returned),
\* invalidations, cache_raised, and last_elapsed, last_log of the cycle before
NewTask ==
    [pc |-> "created", cancel |-> FALSE, elapsed |-> 0, waited |-> 0,
     scanned |-> FALSE, invalidations |-> 0, cache_raised |-> FALSE, log |-> "none",
     last_elapsed |-> 0, last_log |-> "none"]

\* the places where a task is inside _run_scan_cycle
InCycle == {"scan", "cache", "exit", "unwind"}

\* _run_scan_cycle begins: a new session, run_full_scan is awaited
BeginCycle(t, slept) ==
    [t EXCEPT !.pc = "scan", !.elapsed = 0, !.waited = slept,
              !.scanned = FALSE, !.invalidations = 0, !.cache_raised = FALSE,
              !.log = "running",
              !.last_elapsed = t.elapsed, !.last_log = t.log]

\* `while self._is_running:`
LoopTest(t, running, slept) ==
    IF running THEN BeginCycle(t, slept) ELSE [t EXCEPT !.pc = "done"]

\* a loop that waits only for the rest of the interval
SleepTimeFixedRate(duration) ==
    IF duration >= scan_interval THEN 0 ELSE scan_interval - duration

\* `await asyncio.sleep(self.scan_interval)`: the time delays after a cycle
SleepTime(duration) == scan_interval

\* a cycle without the try/except around CacheService.invalidate()
InvalidateUnguarded(raised) == IF raised THEN "failed" ELSE "complete"

\* the try/except around CacheService.invalidate(): the cycle logs
\* "Scan cycle #%d complete" whether the invalidation raised or not
InvalidateGuard(raised) == "complete"

\* a loop whose cycle lets an exception out: the task ends with it
ScanErrorUnguarded == "done"

\* `except Exception` in _run_scan_cycle (and in _scan_loop): the cycle logs
\* "Scan cycle failed", its session is closed and the loop goes on
ScanErrorGuard == "exit"

\* an inverted test at the head of stop()
StopReturnsEarlyInverted(running) == running

\* `if not self._is_running: return`
StopReturnsEarly(running) == ~running

\* CancelledError thrown into the task where it is suspended: outside a cycle
\* it ends the task; inside `async with AsyncSessionLocal()` the session is
\* closed first
CancelAt(pc_) ==
    IF pc_ \in {"scan", "cache"} THEN "unwind" ELSE "done"

LoopInit ==
    /\ _is_running = FALSE
    /\ _task = 0
    /\ tasks = << >>
    /\ total_scans = 0
    /\ stop_waits = {}
    /\ stop_called = FALSE

----------------------------------------------------------------------------
(* RateLimiter / RateLimiterContext.__aenter__, one key *)

\* A timestamp ts of the bucket is kept as its age time.time() - ts, an age of
\* window_sec or more standing for every expired timestamp.

Callers == 1..MaxCallers

\* `bucket[:] = [ts for ts in bucket if ts > cutoff]`, cutoff = now - window_sec
Prune(bucket) == SelectSeq(bucket, LAMBDA age : age < window_sec)

\* a limit test that is off by one
AtLimitOffByOne(bucket) == Len(bucket) > max_requests

\* `len(bucket) >= self.limiter.max_requests`
AtLimit(bucket) == Len(bucket) >= max_requests

\* `sleep_time = bucket[0] - cutoff`
SleepFor(bucket) == window_sec - bucket[1]

\* the passing of one unit of time for a list of ages
Older(ages) == [k \in DOMAIN ages |-> IF ages[k] < window_sec THEN ages[k] + 1 ELSE ages[k]]

LimInit ==
    /\ _buckets = << >>
    /\ _locks = 0
    /\ callers = [c \in Callers |-> [pc |-> "idle", sleep_time |-> 0]]
    /\ grants = << >>

----------------------------------------------------------------------------
(* retry_with_backoff with its default settings *)

max_retries == 3
base_delay == 1
max_delay == 30
exponential_base == 2

\* the HTTP statuses an aiohttp.ClientResponseError is modelled with
Statuses == {399, 400, 404, 428, 429, 430, 499, 500}

\* how an attempt can fail: the retry_on exceptions (aiohttp.ClientError, its
\* subclass ClientResponseError with a status, asyncio.TimeoutError) and an
\* exception that is not in retry_on
Failures ==
    {[type |-> t, status |-> 0] : t \in {"ClientError", "TimeoutError", "ValueError"}}
        \cup {[type |-> "ClientResponseError", status |-> st] : st \in Statuses}

\* `except retry_on as exc`
RetryOn(exc) == exc.type \in {"ClientError", "ClientResponseError", "TimeoutError"}

\* a wrapper for which HTTP 429 is a client error like the others
ClientError4xxAll(exc) ==
    /\ exc.type = "ClientResponseError"
    /\ 400 <= exc.status /\ exc.status < 500

\* "Don't retry on client errors (4xx except 429)"
ClientError4xx(exc) ==
    /\ exc.type = "ClientResponseError"
    /\ 400 <= exc.status /\ exc.status < 500 /\ exc.status # 429

RECURSIVE Pow(_, _)
Pow(b, n) == IF n = 0 THEN 1 ELSE b * Pow(b, n - 1)

\* `delay = min(base_delay * (exponential_base ** attempt), max_delay)`
Delay(n) == Min(base_delay * Pow(exponential_base, n), max_delay)

\* a wrapper that sleeps after its last attempt too
MaySleepAlways(n) == n <= max_retries

\* `if attempt < max_retries:` the wrapper sleeps before the next attempt
MaySleep(n) == n < max_retries

\* `for attempt in range(max_retries + 1)`: the next attempt, or after the
\* last one `raise last_exception`
LoopNext(n) == IF n + 1 < max_retries + 1 THEN "call" ELSE "raised"

RetryInit ==
    /\ retry_pc = "idle"
    /\ attempt = 0
    /\ delays = << >>
    /\ history = << >>

----------------------------------------------------------------------------
(* The Portals adapter and its token *)

\* get_portals_auth_token returns "" when no token is available
NoToken == 0

\* a value of settings.PORTALS_AUTH_TOKEN; the tokens after it are Telethon's
ManualToken == 1

\* the settings of config.py as they are by default: no Telethon credentials
\* and no manual token
NoSettings == [telethon |-> FALSE, token |-> NoToken]

NoCache == [token |-> NoToken, expired |-> FALSE]

portals_collection_names == <<"Swiss Watches", "Loot Bags", "Scared Cats", "Precious Peaches">>

\* what a POST to /gifts/filterFloors ends with: a status code, or 0 when
\* session.post raises (a timeout, a connection error)
Responses == {0, 200, 401, 403, 500}

\* `if resp.status_code == 401 or resp.status_code == 403`
AuthRejected(status) == status = 401 \/ status = 403

\* the keywords of `results[slug] = GiftPrice(price=..., currency=...,
\* source=..., slug=..., raw_name=..., attributes=...)`
FloorKeywords == {"price", "currency", "source", "slug", "raw_name", "attributes"}

\* the floors of an answer 200: the GiftPrice of the first floor is built with
\* keywords the dataclass does not take, the TypeError is caught and logged
\* by the loop's `except Exception`, and results is left as it was; an answer
\* with no floor adds nothing either
FloorResults(results, name, floors) ==
    IF floors /\ FloorKeywords \subseteq DOMAIN GiftPrice(0, "Portals", name)
    THEN results \cup {name}
    ELSE results

\* get_portals_auth_token: the cached token unless expired, or a token newly
\* generated by Telethon (gen_ok: the generation succeeded), which is cached,
\* or the manual token, or ""
get_portals_auth_token(cache, st, gen_ok, n) ==
    IF cache.token # NoToken /\ ~cache.expired
    THEN [token |-> cache.token, cache |-> cache]
    ELSE IF st.telethon /\ gen_ok
    THEN [token |-> ManualToken + n + 1,
          cache |-> [token |-> ManualToken + n + 1, expired |-> FALSE]]
    ELSE [token |-> st.token, cache |-> cache]

\* invalidate_portals_token: `_token_cache.pop("portals", None)`
invalidate_portals_token(cache) == NoCache

PortalsInit ==
    /\ settings = NoSettings
    /\ _token_cache = NoCache
    /\ portals_pc = "idle"
    /\ collection = 0
    /\ auth_token = NoToken
    /\ generated = 0
    /\ requests = << >>
    /\ portals_results = {}

----------------------------------------------------------------------------
(* The opportunity detector. Prices are counted in tenths of a TON. *)

\* arbitrage_notifier = ArbitrageNotifier(min_spread_ton=Decimal("3.0"))
min_spread_ton == 30

\* SUSPICIOUS_PRICE_MULTIPLIER = Decimal("2.0")
SUSPICIOUS_PRICE_MULTIPLIER == 2

\* MIN_CONFIDENCE_FOR_FAIR_VALUE = 0.2, confidence being counted in hundredths
MIN_CONFIDENCE_FOR_FAIR_VALUE == 20

\* get_fair_value returns None
NoFairValue == [median_price |-> 0, confidence |-> -1]

DetSources == {"Fragment", "GetGems", "Portals"}
DetTiers == {"common", "rare", "ultra_rare"}
DetPrices == {20, 40, 70, 80, 120}
FairValues ==
    {NoFairValue} \cup [median_price : {40, 100}, confidence : {19, 20}]

\* `sorted(prices, key=lambda x: x[1])`: a stable sort by price
RECURSIVE SortedByPrice(_)
SortedByPrice(rows) ==
    IF rows = << >> THEN << >>
    ELSE LET rest == SortedByPrice(Tail(rows))
             row == Head(rows)
             before == SelectSeq(rest, LAMBDA r : r.price < row.price)
             after == SelectSeq(rest, LAMBDA r : r.price >= row.price)
         IN  before \o <<row>> \o after

\* the rows of one (slug, tier) key of gift_prices_by_tier
GroupOf(rows, tier) == SelectSeq(rows, LAMBDA r : r.tier = tier)

\* the methods of class ArbitrageNotifier, of which arbitrage_notifier is the
\* one instance
ArbitrageNotifier ==
    {"__init__", "alert_opportunity", "_generate_buy_link", "alert_deep_arbitrage",
     "get_stats"}

\* case A1: `if spread_ton >= arbitrage_notifier.min_spread_ton`
UndervaluedSpreadOk(spread_ton) == spread_ton >= min_spread_ton

\* "Cap sell target at fair value + 10%":
\* `min(sell_listing, sell_target * Decimal("1.1"))`
RealisticSell(sell_listing, sell_target) ==
    IF 10 * sell_listing <= 11 * sell_target THEN sell_listing
    ELSE (11 * sell_target) \div 10

\* `price_ratio = sell_price / buy_price`,
\* `if price_ratio > SUSPICIOUS_PRICE_MULTIPLIER`
Suspicious(sell_price, buy_price) ==
    sell_price > SUSPICIOUS_PRICE_MULTIPLIER * buy_price

\* the locals that the keyword arguments of a call of collect_opportunity
\* are read from
Opportunity(tier, buy, sell_source, sell_price, alert_type) ==
    [tier |-> tier, buy_source |-> buy.source, buy_price |-> buy.price,
     sell_source |-> sell_source, sell_price |-> sell_price,
     spread_ton |-> sell_price - buy.price, alert_type |-> alert_type]

\* a group that reaches no call
NoCollect == [calls |-> << >>, raised |-> FALSE, locals |-> << >>]

\* `arbitrage_notifier.collect_opportunity(...)`: the attribute is looked up
\* before any argument is evaluated, and the lookup of a name that the class
\* does not define raises AttributeError
CallCollectOpportunity(opportunity) ==
    IF "collect_opportunity" \in ArbitrageNotifier
    THEN [calls |-> <<opportunity>>, raised |-> FALSE, locals |-> << >>]
    ELSE [calls |-> << >>, raised |-> TRUE, locals |-> <<opportunity>>]

\* the body of `for (slug, tier), prices in gift_prices_by_tier.items()`: the
\* calls of collect_opportunity made for one group, or the raise
CheckGroup(tier, prices, fair_value) ==
    IF Len(prices) < 1 THEN NoCollect
    ELSE
    LET sorted_prices == SortedByPrice(prices)
        buy == sorted_prices[1]
        sell == sorted_prices[Len(sorted_prices)]
    IN  IF buy.price <= 0 THEN NoCollect
        ELSE IF fair_value # NoFairValue
                /\ fair_value.confidence >= MIN_CONFIDENCE_FOR_FAIR_VALUE
        THEN LET sell_target == fair_value.median_price
             IN  IF 10 * buy.price <= 7 * sell_target
                 THEN IF UndervaluedSpreadOk(sell_target - buy.price)
                      THEN CallCollectOpportunity(
                               Opportunity(tier, buy, "market (avg)", sell_target,
                                           "undervalued"))
                      ELSE NoCollect
                 ELSE IF Len(prices) >= 2 /\ sell.source # buy.source
                 THEN LET realistic_sell == RealisticSell(sell.price, sell_target)
                      IN  IF realistic_sell - buy.price >= min_spread_ton
                          THEN CallCollectOpportunity(
                                   Opportunity(tier, buy, sell.source, realistic_sell,
                                               "arbitrage"))
                          ELSE NoCollect
                 ELSE NoCollect
        ELSE IF Len(prices) < 2 \/ sell.source = buy.source THEN NoCollect
        ELSE IF Suspicious(sell.price, buy.price) THEN NoCollect
        ELSE IF sell.price - buy.price >= min_spread_ton
        THEN CallCollectOpportunity(
                 Opportunity(tier, buy, sell.source, sell.price, "arbitrage_unconfirmed"))
        ELSE NoCollect

\* the tiers in the order in which their first row comes in the result: the
\* order of the keys of gift_prices_by_tier
RECURSIVE TiersOf(_)
TiersOf(rows) ==
    IF rows = << >> THEN << >>
    ELSE <<Head(rows).tier>>
            \o TiersOf(SelectSeq(Tail(rows), LAMBDA r : r.tier # Head(rows).tier))

\* the loop over the groups: an exception leaves it, and the groups after the
\* one that raised are not entered
RECURSIVE CheckGroups(_, _, _)
CheckGroups(tiers, rows, fair) ==
    IF tiers = << >>
    THEN [calls |-> << >>, raised |-> FALSE, locals |-> << >>, entered |-> << >>]
    ELSE LET group == CheckGroup(Head(tiers), GroupOf(rows, Head(tiers)), fair[Head(tiers)])
             rest == CheckGroups(Tail(tiers), rows, fair)
         IN  IF group.raised
             THEN [calls |-> group.calls, raised |-> TRUE, locals |-> group.locals,
                   entered |-> <<Head(tiers)>>]
             ELSE [calls |-> group.calls \o rest.calls, raised |-> rest.raised,
                   locals |-> rest.locals, entered |-> <<Head(tiers)>> \o rest.entered]

\* no attribute lookup has raised
NoRaise == [attribute |-> "", locals |-> << >>, entered |-> << >>]

DetInit ==
    /\ det_pc = "idle"
    /\ det_rows = << >>
    /\ det_fair = [t \in DetTiers |-> NoFairValue]
    /\ collected = << >>
    /\ det_raised = NoRaise

----------------------------------------------------------------------------
(* The rare-at-floor detector. Prices in tenths of a TON, time in hours. *)

\* DEFAULT_PREMIUM, in tenths
DEFAULT_PREMIUM(tier) == IF tier = "ultra_rare" THEN 50 ELSE 25

\* MIN_DISCOUNT_PCT = 0.30, in hundredths
MIN_DISCOUNT_PCT == 30

MIN_SALES_FOR_CONFIDENCE == 3

DEDUP_HOURS == 4

\* `self._alerted.get(listing.nft_address)` is None
NeverAlerted == -1

\* the rare and ultra_rare NFTs that can be listed
RareItems == {[nft_address |-> "EQ-rare", rarity_tier |-> "rare"],
              [nft_address |-> "EQ-ultra", rarity_tier |-> "ultra_rare"]}

RareAddresses == {item.nft_address : item \in RareItems}

\* the median of the sales trusted from the first sale on
ExpectedAnySale(tier, common_floor, sale_info) ==
    IF sale_info.count >= 1 THEN sale_info.median
    ELSE (common_floor * DEFAULT_PREMIUM(tier)) \div 10

\* the expected price of a listing: the median of the sales if there are
\* enough of them, else common_floor x DEFAULT_PREMIUM[tier]
Expected(tier, common_floor, sale_info) ==
    IF sale_info.count >= MIN_SALES_FOR_CONFIDENCE THEN sale_info.median
    ELSE (common_floor * DEFAULT_PREMIUM(tier)) \div 10

\* the listing passes the checks that come before the deduplication
Underpriced(listing, common_floor, sale_info) ==
    LET expected == Expected(listing.rarity_tier, common_floor, sale_info)
    IN  /\ common_floor > 0
        /\ expected > listing.price_ton
        /\ 100 * (expected - listing.price_ton) >= MIN_DISCOUNT_PCT * expected

\* a detector that takes any earlier alert of the NFT as recent enough to
\* skip it only within the hour
DedupedWithinHour(last, now) == last # NeverAlerted /\ now - last < 1

\* `if last and (now - last).total_seconds() < DEDUP_HOURS * 3600`
Deduped(last, now) == last # NeverAlerted /\ now - last < DEDUP_HOURS

RareInit ==
    /\ rare_now = 0
    /\ _alerted = [a \in RareAddresses |-> NeverAlerted]
    /\ rare_log = {}
    /\ rare_last = [now |-> 0, qualified |-> {}, rare_listings |-> {},
                    common_floor |-> 0, sale_info |-> [count |-> 0, median |-> 0],
                    alerted |-> [a \in RareAddresses |-> NeverAlerted], alerts |-> {}]

----------------------------------------------------------------------------
(* The alerter: ArbitrageNotifier.alert_opportunity and
   TelegramNotifier.send_arbitrage_alert. Time in units of 8 hours. *)

\* "Skip if alerted within last 24 hours": 86400 seconds
AlertCooldown == 3

\* `slug in self._recent_alerts` is false
NoAlert == [buy_price |-> 0, sell_price |-> 0, timestamp |-> -1]

\* the opportunities handed to the alerter: (slug, buy_source, sell_source,
\* buy_price, sell_price), prices in tenths of a TON
Deals ==
    [slug : {Slug}, buy_source : {"Portals", "GetGems"}, sell_source : {"Fragment"},
     buy_price : {500}, sell_price : {520, 850, 900}]

\* `if spread_ton < self.min_spread_ton: return`
BelowThreshold(deal) == deal.sell_price - deal.buy_price < min_spread_ton

\* `if slug in self._recent_alerts` ... `if time_since_last < 86400: return`
InCooldown(recent, deal, now) ==
    /\ recent # NoAlert
    /\ now - recent.timestamp < AlertCooldown

\* `field(default_factory=dict)` called outside a class body returns the
\* dataclasses.Field object itself: these are its attributes, `items` is not
\* one of them
FieldObject ==
    [name |-> "None", type |-> "None", default |-> "MISSING",
     default_factory |-> "dict", init |-> "True", repr |-> "True",
     hash |-> "None", compare |-> "True", metadata |-> "mappingproxy",
     kw_only |-> "MISSING", _field_type |-> "None"]

\* a dict of prices by source: it has the method items
Dict(prices) == [items |-> prices]

\* `if obj:`: a dict is true when it is not empty; an object of a class with
\* neither __bool__ nor __len__ is true
Truthy(obj) == IF HasAttr(obj, "items") THEN DOMAIN obj.items # {} ELSE TRUE

\* an empty dict as the default of the parameter
all_pricesEmptyDict == Dict(<< >>)

\* `all_prices: Dict[str, Decimal] = field(default_factory=dict)`: the default
\* of the parameter all_prices of send_arbitrage_alert, the value the calls of
\* alert_opportunity leave it at
all_prices == FieldObject

\* _format_message returned the text of the message
Formatted == [raises |-> "none"]

\* _format_message: `if all_prices:` and then `all_prices.items()`; the other
\* lines format the Decimals and strings they are given
_format_message(prices) ==
    IF Truthy(prices) /\ ~HasAttr(prices, "items") THEN AttributeError
    ELSE Formatted

\* send_arbitrage_alert up to its await: it returns without sending when the
\* bot token or the chat id is missing, and formats the message outside its
\* try block, so that an exception of _format_message leaves it; with a
\* message at hand it awaits _send_message
BeforeSend(configured, prices) ==
    IF ~configured THEN "skipped"
    ELSE IF _format_message(prices) # Formatted THEN "raised"
    ELSE "sending"

\* send_arbitrage_alert: BeforeSend, and then the awaited _send_message, whose
\* exception it catches itself; `outcome` is the answer of the Telegram API
send_arbitrage_alert(configured, prices, outcome) ==
    IF BeforeSend(configured, prices) # "sending" THEN BeforeSend(configured, prices)
    ELSE IF outcome = "ok" THEN "sent"
    ELSE "failed"

\* `self._recent_alerts[slug] = ...` follows the awaited send_arbitrage_alert
\* in the try block: it is reached when that call returns, and skipped when
\* the call raises (`except Exception` at line 164)
Tracked(delivery) == delivery \in {"sent", "failed", "skipped"}

AlertInit ==
    /\ alert_now = 0
    /\ sink = FALSE
    /\ _recent_alerts = [s \in {Slug} |-> NoAlert]
    /\ alert_count = 0
    /\ published = << >>
    /\ alert_last = [deal |-> 0, delivery |-> "none", api |-> "none"]

----------------------------------------------------------------------------
(* The scan loop *)

\* who calls sync_all_listings on the database: the scan loop of the service
\* (ContinuousScanner) and a script run beside it (run_single_scan.py), each
\* with a session of its own
Scanners == {"service", "script"}

NoSync == [tick |-> 0, session |-> "service", outcome |-> "none", now |-> NoTime,
           inbound |-> [a \in {} |-> NFTListing("id1", 0)], active |-> {},
           new_sales |-> 0, rerun |-> FALSE]

FetchInit ==
    /\ bulk_results = NoBulk
    /\ individual_results = NoPrices
    /\ calls = {}

AuxInit ==
    /\ FetchInit /\ SemInit /\ LoopInit /\ LimInit /\ RetryInit
    /\ PortalsInit /\ DetInit /\ RareInit /\ AlertInit
    /\ TierInit /\ ConfInit /\ NormInit
    /\ DigestInit /\ EscrowInit /\ MemoInit /\ RaceInit

\* an empty gift_listings table
NoListings == [a \in {} |-> ListedRow("id1", 0, 0)]

\* a scanner that is not in sync_all_listings
IdleScanner ==
    [pc |-> "idle", listings |-> << >>, now |-> NoTime, active_db |-> NoListings,
     inbound |-> Inbound(<< >>), pending |-> Pending(NoListings, {}, Inbound(<< >>), NoTime)]

\* the state when the scanner starts: the scanner has written nothing yet, and
\* gift_listings holds the rows the database has kept
InitDb(catalogs, tables) ==
    /\ clock = 0
    /\ pc = "idle"
    /\ catalog \in catalogs
    /\ tick = 0
    /\ scan_start = NoTime
    /\ saved = 0
    /\ snapshots = {}
    /\ listings \in tables
    /\ sales = EmptyBag
    /\ sync = NoSync
    /\ sessions = [s \in Scanners |-> IdleScanner]
    /\ phase3 = NoPhase3
    /\ AuxInit

InitWith(catalogs) == InitDb(catalogs, {NoListings})

\* run_full_scan reads the clock and the catalog
StartScan ==
    /\ pc = "idle"
    /\ catalog # {}
    /\ pc' = "fetch"
    /\ tick' = tick + 1
    /\ scan_start' = clock
    /\ saved' = 0
    /\ UNCHANGED <<clock, catalog, snapshots, listings, sales, sync, sessions, phase3>>
    /\ UNCHANGED auxVars

\* "gifts_catalog is empty - nothing to scan": the tick returns at once
EmptyCatalog ==
    /\ pc = "idle"
    /\ catalog = {}
    /\ pc' = "sleep"
    /\ tick' = tick + 1
    /\ scan_start' = clock
    /\ UNCHANGED <<clock, catalog, saved, snapshots, listings, sales, sync, sessions, phase3>>
    /\ UNCHANGED auxVars

\* time passes while the adapters are awaited
Await(last) ==
    /\ pc = "fetch"
    /\ clock < last
    /\ clock' = clock + 1
    /\ UNCHANGED <<pc, catalog, tick, scan_start, saved, snapshots, listings, sales, sync, sessions, phase3>>
    /\ UNCHANGED auxVars

\* ghost: what a run of phase 3 did: the constructor calls it made are the
\* first one when that one raised, and otherwise one per valid price
Phase3Run(bulk, item, built, raised) ==
    [tick |-> tick, scanned_at |-> clock, built |-> built, raised |-> raised,
     skipped |-> \/ \E x \in DOMAIN bulk : x \in catalog /\ bulk[x] <= 0
                 \/ \E x \in DOMAIN item : item[x] <= 0]

\* the ways phase 3 can go over the results of phases 1 and 2
Phase3Runs(bulk, item) ==
    LET p      == Phase3(bulk, item, catalog, scan_start, clock, tick)
        firsts == {{c} : c \in FirstCalls(bulk, item, catalog, scan_start, clock)}
        all    == BulkCalls(bulk, catalog, scan_start, clock)
                  \cup ItemCalls(item, scan_start, clock)
    IN  {[saved |-> p.saved, rows |-> p.rows, next |-> p.next,
          ghost |-> Phase3Run(bulk, item, built, p.raised)] :
            built \in IF p.raised THEN firsts ELSE {all}}

\* phases 1-3 of run_full_scan: `scanned_at = datetime.utcnow()`, the rows of
\* the valid prices and `if saved: await session.commit()`; an exception
\* raised while a row is built leaves run_full_scan (the cycle logs it)
PersistSnapshots(bulks, items) ==
    /\ pc = "fetch"
    /\ \E bulk \in bulks, item \in items :
        \E run \in Phase3Runs(bulk, item) :
            /\ saved' = run.saved
            /\ snapshots' = IF run.saved > 0 THEN CommitSnapshots(snapshots, run.rows)
                             ELSE snapshots
            /\ phase3' = run.ghost
            /\ pc' = run.next
    /\ UNCHANGED <<clock, catalog, tick, scan_start, listings, sales, sync, sessions>>
    /\ UNCHANGED auxVars

\* sync_all_listings(session, listings) is entered: `now = datetime.utcnow()`,
\* and the call awaits its first SELECT. The service calls it in run_full_scan
\* after the snapshot write, a script whenever it is run
SyncBegin(s, lists) ==
    /\ sessions[s].pc = "idle"
    /\ s = "service" => pc = "sync"
    /\ \E lst \in lists :
        sessions' = [sessions EXCEPT ![s] =
                        [IdleScanner EXCEPT !.pc = "select_active", !.listings = lst,
                                            !.now = clock]]
    /\ UNCHANGED <<clock, pc, catalog, tick, scan_start, saved, snapshots, listings, sales, sync, phase3>>
    /\ UNCHANGED auxVars

\* the first SELECT returns the rows that are active now; active_db and
\* inbound are built, and the call awaits its second SELECT
SyncSelectActive(s) ==
    /\ sessions[s].pc = "select_active"
    /\ sessions' = [sessions EXCEPT ![s].pc = "select_sales",
                                    ![s].active_db = ActiveDb(listings),
                                    ![s].inbound = Inbound(sessions[s].listings)]
    /\ UNCHANGED <<clock, pc, catalog, tick, scan_start, saved, snapshots, listings, sales, sync, phase3>>
    /\ UNCHANGED auxVars

\* ghost: the call of scanner s ends
SyncEnded(s, outcome, new_sales) ==
    [tick |-> tick, session |-> s, outcome |-> outcome, now |-> sessions[s].now,
     inbound |-> sessions[s].inbound,
     active |-> DOMAIN sessions[s].active_db,
     new_sales |-> new_sales,
     rerun |-> /\ sync.outcome \in {"committed", "attribute_error"}
               /\ sync.inbound = sessions[s].inbound
               /\ sessions[s].now - sync.now <= HourUnits]

\* where the scan loop is once the call of scanner s has ended
AfterSync(s) == IF s = "service" THEN "sleep" ELSE pc

\* the scanner once its call has ended: the service calls again in its next
\* cycle, the script has made its one scan
Ended(s) == IF s = "service" THEN IdleScanner ELSE [IdleScanner EXCEPT !.pc = "ended"]

\* the second SELECT returns the addresses sold in the last hour, and the two
\* loops run: an exception of the second loop leaves the call before the
\* commit (run_full_scan logs it and goes on; the session is closed with
\* nothing committed), and otherwise the call awaits its commit
SyncSelectSales(s) ==
    /\ sessions[s].pc = "select_sales"
    /\ LET already_sold == AlreadySold(sales, sessions[s].now)
           pending      == Pending(sessions[s].active_db, already_sold,
                                   sessions[s].inbound, sessions[s].now)
       IN  IF pending.raised
           THEN /\ sessions' = [sessions EXCEPT ![s] = Ended(s)]
                /\ sync' = SyncEnded(s, "attribute_error", BagCardinality(pending.new_sales))
                /\ pc' = AfterSync(s)
           ELSE /\ sessions' = [sessions EXCEPT ![s].pc = "commit", ![s].pending = pending]
                /\ UNCHANGED <<sync, pc>>
    /\ UNCHANGED <<clock, catalog, tick, scan_start, saved, snapshots, listings, sales, phase3>>
    /\ UNCHANGED auxVars

\* `await session.commit()` with the database reachable: the commit succeeds
\* unless the flush hits the primary key
SyncCommit(s) ==
    /\ sessions[s].pc = "commit"
    /\ LET pending == sessions[s].pending
           ok      == ~IntegrityError(listings, DOMAIN pending.added)
           db      == Commit([listings |-> listings, sales |-> sales], pending, ok)
       IN  /\ listings' = db.listings
           /\ sales' = db.sales
           /\ sync' = SyncEnded(s, IF ok THEN "committed" ELSE "integrity_error",
                                BagCardinality(pending.new_sales))
    /\ sessions' = [sessions EXCEPT ![s] = Ended(s)]
    /\ pc' = AfterSync(s)
    /\ UNCHANGED <<clock, catalog, tick, scan_start, saved, snapshots, phase3>>
    /\ UNCHANGED auxVars

\* `await session.commit()` with the database failing
SyncDbError(s) ==
    /\ sessions[s].pc = "commit"
    /\ LET pending == sessions[s].pending
           db      == Commit([listings |-> listings, sales |-> sales], pending, FALSE)
       IN  /\ listings' = db.listings
           /\ sales' = db.sales
           /\ sync' = [NoSync EXCEPT !.tick = tick, !.session = s, !.outcome = "db_error",
                                     !.now = sessions[s].now,
                                     !.new_sales = BagCardinality(pending.new_sales)]
    /\ sessions' = [sessions EXCEPT ![s] = Ended(s)]
    /\ pc' = AfterSync(s)
    /\ UNCHANGED <<clock, catalog, tick, scan_start, saved, snapshots, phase3>>
    /\ UNCHANGED auxVars

\* the loop task is cancelled between the snapshot write and the reconciler
\* or at one of the reconciler's awaits: the call is left where it is and its
\* session is closed with nothing committed
Cancel ==
    /\ pc = "sync"
    /\ pc' = "cancelled"
    /\ sessions' = [sessions EXCEPT !["service"] = IdleScanner]
    /\ UNCHANGED <<clock, catalog, tick, scan_start, saved, snapshots, listings, sales, sync, phase3>>
    /\ UNCHANGED auxVars

\* asyncio.sleep(scan_interval) between two cycles
Sleep(last) ==
    /\ pc = "sleep"
    /\ \E t \in (clock + 1)..last : clock' = t
    /\ pc' = "idle"
    /\ UNCHANGED <<catalog, tick, scan_start, saved, snapshots, listings, sales, sync, sessions, phase3>>
    /\ UNCHANGED auxVars

\* phase 1: the bulk parser is called once
FetchBulk ==
    /\ pc = "fetch"
    /\ \E outcome \in BulkOutcomes :
        LET r == BulkFetch(outcome)
        IN  /\ bulk_results' = [x \in {BulkSource} |-> r.results]
            /\ pc' = r.next
            /\ calls' = {AdapterCall(BulkSource, "*", outcome.raised,
                            {<<x, outcome.prices[x]>> : x \in DOMAIN outcome.prices})}
    /\ individual_results' = NoPrices
    /\ UNCHANGED <<scanVarsButPc, semVars, loopVars, limVars, retryVars, restVars>>

\* phase 2: one (parser, slug) task of the gather ends; the tasks end in any order
FetchSingle ==
    /\ pc = "gather"
    /\ \E slug \in catalog, outcome \in ItemOutcomes :
        /\ \A c \in calls : ~(c.source = ItemSource /\ c.slug = slug)
        /\ individual_results' = GatherResult(individual_results, slug, _fetch_single(outcome))
        /\ calls' = calls \cup {AdapterCall(ItemSource, slug, outcome.raised,
                        IF outcome.found THEN {<<slug, outcome.price>>} ELSE {})}
    /\ UNCHANGED <<scanVars, bulk_results, semVars, loopVars, limVars, retryVars, restVars>>

\* phase 3 over the results of phases 1 and 2
PersistFetched ==
    /\ pc = "gather"
    /\ \A slug \in catalog : \E c \in calls : c.source = ItemSource /\ c.slug = slug
    /\ \E run \in Phase3Runs(bulk_results[BulkSource], individual_results) :
        /\ saved' = run.saved
        /\ snapshots' = IF run.saved > 0 THEN CommitSnapshots(snapshots, run.rows)
                         ELSE snapshots
        /\ phase3' = run.ghost
        /\ pc' = run.next
    /\ UNCHANGED <<clock, catalog, tick, scan_start, listings, sales, sync, sessions>>
    /\ UNCHANGED auxVars

\* asyncio.gather over one _fetch_single task per (parser, slug)
Gather ==
    /\ queued = NoTasks /\ waiting = NoTasks /\ in_flight = NoTasks
    /\ queued' = [s \in ItemSources |-> MaxSlugs]
    /\ UNCHANGED <<scanVars, fetchVars, loopVars, limVars, retryVars, restVars, _global_sem, _source_sems, waiting, in_flight>>

\* `async with self._global_sem`
AcquireGlobal ==
    /\ \E s \in ItemSources :
        /\ queued[s] > 0
        /\ SemFree(_global_sem)
        /\ _global_sem' = _global_sem - 1
        /\ queued' = [queued EXCEPT ![s] = @ - 1]
        /\ waiting' = [waiting EXCEPT ![s] = @ + 1]
    /\ UNCHANGED <<scanVars, fetchVars, loopVars, limVars, retryVars, restVars, _source_sems, in_flight>>

\* `async with source_sem`, then the adapter is called
AcquireSource ==
    /\ \E s \in ItemSources :
        /\ waiting[s] > 0
        /\ SemFree(_source_sems[s])
        /\ _source_sems' = [_source_sems EXCEPT ![s] = @ - 1]
        /\ waiting' = [waiting EXCEPT ![s] = @ - 1]
        /\ in_flight' = [in_flight EXCEPT ![s] = @ + 1]
    /\ UNCHANGED <<scanVars, fetchVars, loopVars, limVars, retryVars, restVars, _global_sem, queued>>

\* the adapter returns or raises: both semaphores are released
Release ==
    /\ \E s \in ItemSources :
        /\ in_flight[s] > 0
        /\ in_flight' = [in_flight EXCEPT ![s] = @ - 1]
        /\ _source_sems' = [_source_sems EXCEPT ![s] = SemRelease(@)]
    /\ _global_sem' = SemRelease(_global_sem)
    /\ UNCHANGED <<scanVars, fetchVars, loopVars, limVars, retryVars, restVars, queued, waiting>>

\* ContinuousScanner.start(), at most `most` loop tasks being created
Start(most) ==
    /\ IF _is_running
       THEN UNCHANGED loopVars
       ELSE /\ Len(tasks) < most
            /\ _is_running' = TRUE
            /\ tasks' = Append(tasks, NewTask)
            /\ _task' = Len(tasks) + 1
            /\ stop_called' = FALSE
            /\ UNCHANGED <<total_scans, stop_waits>>
    /\ UNCHANGED notLoopVars

\* ContinuousScanner.stop() up to `await self._task`
Stop ==
    /\ stop_called' = TRUE
    /\ IF StopReturnsEarly(_is_running)
       THEN UNCHANGED <<_is_running, _task, tasks, total_scans, stop_waits>>
       ELSE /\ _is_running' = FALSE
            /\ IF _task # 0
               THEN /\ tasks' = [tasks EXCEPT ![_task].cancel = (tasks[_task].pc # "done")]
                    /\ stop_waits' = stop_waits \cup {_task}
               ELSE UNCHANGED <<tasks, stop_waits>>
            /\ UNCHANGED <<_task, total_scans>>
    /\ UNCHANGED notLoopVars

\* the awaited task has ended: stop() logs "ContinuousScanner stopped" and returns
StopReturns ==
    /\ \E i \in stop_waits :
        /\ tasks[i].pc = "done"
        /\ stop_waits' = stop_waits \ {i}
    /\ UNCHANGED <<_is_running, _task, tasks, total_scans, stop_called>>
    /\ UNCHANGED notLoopVars

\* the first step of a loop task: the loop test and the first cycle
TaskRuns(i) ==
    /\ tasks[i].pc = "created" /\ ~tasks[i].cancel
    /\ tasks' = [tasks EXCEPT ![i] = LoopTest(@, _is_running, 0)]
    /\ UNCHANGED <<_is_running, _task, total_scans, stop_waits, stop_called>>
    /\ UNCHANGED notLoopVars

\* time passes while run_full_scan is awaited
TimeInScan(i) ==
    /\ tasks[i].pc = "scan" /\ tasks[i].elapsed < MaxElapsed
    /\ tasks' = [tasks EXCEPT ![i].elapsed = @ + 1]
    /\ UNCHANGED <<_is_running, _task, total_scans, stop_waits, stop_called>>
    /\ UNCHANGED notLoopVars

\* run_full_scan returns: the statistics are updated, the cache comes next
ScanReturns(i) ==
    /\ tasks[i].pc = "scan" /\ ~tasks[i].cancel
    /\ total_scans < MaxScans
    /\ total_scans' = total_scans + 1
    /\ tasks' = [tasks EXCEPT ![i].pc = "cache", ![i].scanned = TRUE]
    /\ UNCHANGED <<_is_running, _task, stop_waits, stop_called>>
    /\ UNCHANGED notLoopVars

\* run_full_scan raises an Exception
ScanRaises(i) ==
    /\ tasks[i].pc = "scan" /\ ~tasks[i].cancel
    /\ tasks' = [tasks EXCEPT ![i].pc = ScanErrorGuard, ![i].log = "failed"]
    /\ UNCHANGED <<_is_running, _task, total_scans, stop_waits, stop_called>>
    /\ UNCHANGED notLoopVars

\* CacheService.invalidate() returns or raises, the summary is logged
Invalidate(i) ==
    /\ tasks[i].pc = "cache" /\ ~tasks[i].cancel
    /\ \E raised \in BOOLEAN :
        tasks' = [tasks EXCEPT ![i].pc = "exit",
                               ![i].invalidations = @ + 1,
                               ![i].cache_raised = raised,
                               ![i].log = InvalidateGuard(raised)]
    /\ UNCHANGED <<_is_running, _task, total_scans, stop_waits, stop_called>>
    /\ UNCHANGED notLoopVars

\* the session is closed, _run_scan_cycle is over:
\* `if self._is_running: await asyncio.sleep(self.scan_interval)`
CycleEnds(i) ==
    /\ tasks[i].pc = "exit" /\ ~tasks[i].cancel
    /\ tasks' = [tasks EXCEPT ![i].pc = IF _is_running THEN "sleep" ELSE "done"]
    /\ UNCHANGED <<_is_running, _task, total_scans, stop_waits, stop_called>>
    /\ UNCHANGED notLoopVars

\* the sleep is over: the loop test and the next cycle
Wake(i) ==
    /\ tasks[i].pc = "sleep" /\ ~tasks[i].cancel
    /\ tasks' = [tasks EXCEPT ![i] = LoopTest(@, _is_running, SleepTime(@.elapsed))]
    /\ UNCHANGED <<_is_running, _task, total_scans, stop_waits, stop_called>>
    /\ UNCHANGED notLoopVars

\* the task's cancellation is delivered where the task is suspended
Cancelled(i) ==
    /\ tasks[i].cancel
    /\ tasks[i].pc \in {"created", "scan", "cache", "exit", "sleep"}
    /\ tasks' = [tasks EXCEPT ![i].pc = CancelAt(@), ![i].cancel = FALSE]
    /\ UNCHANGED <<_is_running, _task, total_scans, stop_waits, stop_called>>
    /\ UNCHANGED notLoopVars

\* the session of a cancelled cycle is closed: `except asyncio.CancelledError: break`
Unwound(i) ==
    /\ tasks[i].pc = "unwind"
    /\ tasks' = [tasks EXCEPT ![i].pc = "done"]
    /\ UNCHANGED <<_is_running, _task, total_scans, stop_waits, stop_called>>
    /\ UNCHANGED notLoopVars

\* a step of a loop task that the event loop takes when the task is ready
TaskStep ==
    \E i \in DOMAIN tasks :
        \/ TaskRuns(i)
        \/ ScanReturns(i)
        \/ ScanRaises(i)
        \/ Invalidate(i)
        \/ CycleEnds(i)
        \/ Wake(i)
        \/ Cancelled(i)
        \/ Unwound(i)

\* a caller enters `async with limiter.acquire(key)`: __aenter__ asks for the lock
Enter(c) ==
    /\ callers[c].pc = "idle"
    /\ callers' = [callers EXCEPT ![c].pc = "lock"]
    /\ UNCHANGED <<_buckets, _locks, grants>>
    /\ UNCHANGED notLimVars

\* __aenter__ with the lock: the bucket is pruned; at the limit the caller
\* sleeps, the lock held; below it the timestamp is appended, the lock
\* released and the caller granted
TakeLock(c) ==
    /\ callers[c].pc \in {"lock", "relock"}
    /\ _locks = 0
    /\ LET bucket == Prune(_buckets)
       IN  IF AtLimit(bucket) /\ SleepFor(bucket) > 0
           THEN /\ _buckets' = bucket
                /\ _locks' = c
                /\ callers' = [callers EXCEPT ![c] = [pc |-> "sleep", sleep_time |-> SleepFor(bucket)]]
                /\ UNCHANGED grants
           ELSE /\ _buckets' = Append(bucket, 0)
                /\ _locks' = 0
                /\ callers' = [callers EXCEPT ![c].pc = "granted"]
                /\ grants' = Append(grants, 0)
    /\ UNCHANGED notLimVars

\* the sleep is over: `return await self.__aenter__()` inside the `async with`
\* of the lock, which the caller still holds
SleepOver(c) ==
    /\ callers[c].pc = "sleep"
    /\ callers[c].sleep_time = 0
    /\ callers' = [callers EXCEPT ![c].pc = "relock"]
    /\ UNCHANGED <<_buckets, _locks, grants>>
    /\ UNCHANGED notLimVars

\* the granted caller goes on and leaves the `async with` (__aexit__ does nothing)
Leave(c) ==
    /\ callers[c].pc = "granted"
    /\ callers' = [callers EXCEPT ![c].pc = "idle"]
    /\ UNCHANGED <<_buckets, _locks, grants>>
    /\ UNCHANGED notLimVars

\* one unit of time passes
TimePasses ==
    /\ _buckets' = Older(_buckets)
    /\ grants' = SelectSeq(Older(grants), LAMBDA age : age < window_sec)
    /\ callers' = [c \in Callers |->
                      IF callers[c].sleep_time > 0
                      THEN [callers[c] EXCEPT !.sleep_time = @ - 1]
                      ELSE callers[c]]
    /\ UNCHANGED _locks
    /\ UNCHANGED notLimVars

\* the wrapped function is called: the wrapper makes its first attempt
CallWrapped ==
    /\ retry_pc \in {"idle", "returned", "raised"}
    /\ retry_pc' = "call"
    /\ attempt' = 0
    /\ delays' = << >>
    /\ history' = << >>
    /\ UNCHANGED notRetryVars

\* `return await func(*args, **kwargs)`
AttemptReturns ==
    /\ retry_pc = "call"
    /\ retry_pc' = "returned"
    /\ history' = Append(history, [type |-> "ok", status |-> 0])
    /\ UNCHANGED <<attempt, delays>>
    /\ UNCHANGED notRetryVars

\* the attempt raises: the exception is passed on, or the wrapper sleeps and
\* goes to the next attempt, or gives up
AttemptRaises ==
    /\ retry_pc = "call"
    /\ \E exc \in Failures :
        /\ history' = Append(history, exc)
        /\ IF ~RetryOn(exc) \/ ClientError4xx(exc)
           THEN retry_pc' = "raised" /\ UNCHANGED <<attempt, delays>>
           ELSE IF MaySleep(attempt)
           THEN retry_pc' = "sleep" /\ delays' = Append(delays, Delay(attempt))
                /\ UNCHANGED attempt
           ELSE /\ retry_pc' = LoopNext(attempt)
                /\ attempt' = IF LoopNext(attempt) = "call" THEN attempt + 1 ELSE attempt
                /\ UNCHANGED delays
    /\ UNCHANGED notRetryVars

\* `await asyncio.sleep(delay)` is over
BackoffOver ==
    /\ retry_pc = "sleep"
    /\ retry_pc' = LoopNext(attempt)
    /\ attempt' = IF LoopNext(attempt) = "call" THEN attempt + 1 ELSE attempt
    /\ UNCHANGED <<delays, history>>
    /\ UNCHANGED notRetryVars

\* the deployment sets the Telethon credentials or the manual token, before
\* the first scan
Configure(cfg) ==
    /\ settings = NoSettings
    /\ cfg # NoSettings
    /\ portals_pc = "idle"
    /\ requests = << >>
    /\ settings' = cfg
    /\ UNCHANGED <<_token_cache, portals_pc, collection, auth_token, generated,
                   requests, portals_results>>
    /\ UNCHANGED notPortalsVars

\* TOKEN_TTL_SEC have passed since the cached token was stored
TokenExpires ==
    /\ _token_cache.token # NoToken
    /\ ~_token_cache.expired
    /\ _token_cache' = [_token_cache EXCEPT !.expired = TRUE]
    /\ UNCHANGED <<settings, portals_pc, collection, auth_token, generated,
                   requests, portals_results>>
    /\ UNCHANGED notPortalsVars

\* fetch_all_prices is called (once per scan): it takes the token and, with
\* no token, returns {}
FetchAllPrices(gen_ok) ==
    /\ portals_pc = "idle"
    /\ gen_ok => generated < MaxTokens
    /\ LET got == get_portals_auth_token(_token_cache, settings, gen_ok, generated)
       IN  /\ auth_token' = got.token
           /\ _token_cache' = got.cache
           /\ generated' = IF got.cache # _token_cache THEN generated + 1 ELSE generated
           /\ portals_pc' = IF got.token = NoToken THEN "idle" ELSE "loop"
    /\ collection' = 1
    /\ requests' = << >>
    /\ portals_results' = {}
    /\ UNCHANGED settings
    /\ UNCHANGED notPortalsVars

\* one turn of `for collection_name in portals_collection_names`: the request
\* with the headers built before the loop, and what is done with its answer
Post(status, floors) ==
    /\ portals_pc = "loop"
    /\ requests' = Append(requests, [token |-> auth_token, collection |-> collection,
                                     status |-> status])
    /\ _token_cache' =
        IF AuthRejected(status) THEN invalidate_portals_token(_token_cache)
        ELSE _token_cache
    /\ portals_results' =
        IF status = 200
        THEN FloorResults(portals_results, portals_collection_names[collection], floors)
        ELSE portals_results
    /\ IF collection < Len(portals_collection_names)
       THEN collection' = collection + 1 /\ UNCHANGED portals_pc
       ELSE portals_pc' = "idle" /\ UNCHANGED collection
    /\ UNCHANGED <<settings, auth_token, generated>>
    /\ UNCHANGED notPortalsVars

\* _check_arbitrage_opportunities runs over the latest snapshot rows of a
\* slug, one row per source, with the sales that get_fair_value finds
\* the loop is followed by `await arbitrage_notifier.send_scan_results()`, and
\* nothing in the method catches an exception
CheckArbitrage(rows, fair) ==
    LET loop == CheckGroups(TiersOf(rows), rows, fair)
        attribute ==
            IF loop.raised THEN "collect_opportunity"
            ELSE IF "send_scan_results" \notin ArbitrageNotifier THEN "send_scan_results"
            ELSE ""
    IN  /\ det_pc = "idle"
        /\ det_pc' = IF attribute = "" THEN "done" ELSE "raised"
        /\ det_rows' = rows
        /\ det_fair' = fair
        /\ collected' = loop.calls
        /\ det_raised' = [attribute |-> attribute, locals |-> loop.locals,
                          entered |-> loop.entered]
        /\ UNCHANGED notDetVars

\* check_and_alert, `passed` hours after the previous call, over the active
\* rare listings, the common floor of their collection and its sales
CheckAndAlert(passed, rare_listings, common_floor, sale_info) ==
    /\ rare_now + passed <= MaxRareTime
    /\ LET now == rare_now + passed
           qualified == {l \in rare_listings : Underpriced(l, common_floor, sale_info)}
           alerts == {l \in qualified : ~Deduped(_alerted[l.nft_address], now)}
       IN  /\ rare_now' = now
           /\ _alerted' = [a \in RareAddresses |->
                            IF \E l \in alerts : l.nft_address = a THEN now
                            ELSE _alerted[a]]
           /\ rare_log' = rare_log \cup
                            {[nft_address |-> l.nft_address, at |-> now] : l \in alerts}
           /\ rare_last' = [now |-> now,
                            qualified |-> {l.nft_address : l \in qualified},
                            rare_listings |-> rare_listings,
                            common_floor |-> common_floor, sale_info |-> sale_info,
                            alerted |-> _alerted,
                            alerts |-> {l.nft_address : l \in alerts}]
    /\ UNCHANGED notRareVars

\* the deployment sets BOT_TOKEN and TELEGRAM_CHAT_ID, before the first alert
ConfigureSink ==
    /\ ~sink
    /\ alert_last.delivery = "none"
    /\ alert_count = 0
    /\ sink' = TRUE
    /\ UNCHANGED <<alert_now, _recent_alerts, alert_count, published, alert_last>>
    /\ UNCHANGED notAlertVars

\* eight hours pass
AlertTimePasses ==
    /\ alert_now < MaxAlertTime
    /\ alert_now' = alert_now + 1
    /\ UNCHANGED <<sink, _recent_alerts, alert_count, published, alert_last>>
    /\ UNCHANGED notAlertVars

\* alert_opportunity(deal), called without all_prices; `outcome` is how the
\* Telegram API answers a POST at that time
AlertOpportunity(deal, outcome) ==
    /\ IF BelowThreshold(deal)
       THEN /\ alert_last' = [deal |-> deal, delivery |-> "below", api |-> outcome]
            /\ UNCHANGED <<_recent_alerts, alert_count, published>>
       ELSE IF InCooldown(_recent_alerts[deal.slug], deal, alert_now)
       THEN /\ alert_last' = [deal |-> deal, delivery |-> "recent", api |-> outcome]
            /\ UNCHANGED <<_recent_alerts, alert_count, published>>
       ELSE LET delivery == send_arbitrage_alert(sink, all_prices, outcome)
            IN  /\ alert_count < MaxAlerts
                /\ alert_count' = alert_count + 1
                /\ published' = IF delivery = "sent" THEN Append(published, deal)
                                ELSE published
                /\ _recent_alerts' =
                    IF Tracked(delivery)
                    THEN [_recent_alerts EXCEPT ![deal.slug] =
                            [buy_price |-> deal.buy_price, sell_price |-> deal.sell_price,
                             timestamp |-> alert_now]]
                    ELSE _recent_alerts
                /\ alert_last' = [deal |-> deal, delivery |-> delivery, api |-> outcome]
    /\ UNCHANGED <<alert_now, sink>>
    /\ UNCHANGED notAlertVars

\* _get_rarity_tier is called with a serial and the attributes of an NFT
GetRarityTier(serial, attributes) ==
    /\ tier_serial' = serial
    /\ tier_attributes' = attributes
    /\ tier_result' = _get_rarity_tier(serial, attributes)
    /\ UNCHANGED notTierVars

\* get_fair_value hands the counts of the sales in the window to
\* _calculate_confidence
CalculateConfidence(total_count, recent_count, days_since_last) ==
    /\ conf_total' = total_count
    /\ conf_recent' = recent_count
    /\ conf_days' = days_since_last
    /\ conf_score' = _calculate_confidence(total_count, recent_count, days_since_last)
    /\ UNCHANGED notConfVars

\* an adapter hands a raw name to GiftMapper.normalize
NormalizeName(raw_name) ==
    /\ norm_calls = 0
    /\ norm_in' = raw_name
    /\ norm_out' = normalize(raw_name)
    /\ norm_calls' = 1
    /\ UNCHANGED notNormVars

\* the slug that normalize returned is normalized again
NormalizeAgain ==
    /\ norm_calls = 1
    /\ norm_in' = norm_out
    /\ norm_out' = normalize(norm_out)
    /\ norm_calls' = 2
    /\ UNCHANGED notNormVars

\* send_digest stamps _last_digest_at first, then builds and pushes the
\* message; a failure of either is logged and swallowed
send_digest ==
    /\ _last_digest_at' = digest_now
    /\ digests' = Append(digests, digest_now)

\* send_if_due: nothing when the interval has not elapsed, else send_digest.
\* No module of the repository calls it.
send_if_due ==
    /\ IF should_send(_last_digest_at, digest_now)
       THEN send_digest
       ELSE UNCHANGED <<_last_digest_at, digests>>
    /\ UNCHANGED <<digest_now, digest_scans, digest_pc>>
    /\ UNCHANGED notDigestVars

\* ContinuousScanner._run_scan_cycle: the full scan, the statistics, the
\* cache invalidation and the summary line; it ends there, on success and on
\* failure alike
RunScanCycle ==
    /\ digest_pc = "scan"
    /\ digest_scans' = Min(digest_scans + 1, MaxDigestScans)
    /\ digest_pc' = "sleep"
    /\ UNCHANGED <<digest_now, _last_digest_at, digests>>
    /\ UNCHANGED notDigestVars

\* `await asyncio.sleep(self.scan_interval)` returns, h hours later
IntervalSleep(h) ==
    /\ digest_pc = "sleep"
    /\ digest_now + h <= MaxDigestTime
    /\ digest_now' = digest_now + h
    /\ digest_pc' = "scan"
    /\ UNCHANGED <<_last_digest_at, digests, digest_scans>>
    /\ UNCHANGED notDigestVars

\* create_deal adds and commits a deal in status created
CreateDeal(d) ==
    /\ deals[d] = NoDeal
    /\ deals' = [deals EXCEPT ![d] = NewDeal]
    /\ UNCHANGED <<db_sessions, escrow_last>>
    /\ UNCHANGED notEscrowVars

\* check_deposit up to its first write: get_deal loads the row into the
\* session; a missing deal and a completed or cancelled one raise ValueError
CheckDepositLoads(s, d, side) ==
    /\ db_sessions[s].pc = "idle"
    /\ IF deals[d] = NoDeal \/ Closed(deals[d])
       THEN /\ escrow_last' = [deal_id |-> d, side |-> side, outcome |-> "ValueError",
                               before |-> deals[d], after |-> deals[d]]
            /\ UNCHANGED db_sessions
       ELSE /\ db_sessions' = [db_sessions EXCEPT ![s] =
                    [pc |-> "loaded", deal_id |-> d, side |-> side, deal |-> deals[d]]]
            /\ UNCHANGED escrow_last
    /\ UNCHANGED deals
    /\ UNCHANGED notEscrowVars

\* the rest of check_deposit: the flag of the side, the status, then commit
\* and refresh
CheckDepositCommits(s) ==
    LET loaded  == db_sessions[s].deal
        d       == db_sessions[s].deal_id
        changed == AdvanceStatus(Deposited(loaded, db_sessions[s].side))
        row     == Flush(deals[d], loaded, changed)
    IN  /\ db_sessions[s].pc = "loaded"
        /\ deals' = [deals EXCEPT ![d] = row]
        /\ db_sessions' = [db_sessions EXCEPT ![s] = IdleSession]
        /\ escrow_last' = [deal_id |-> d, side |-> db_sessions[s].side, outcome |-> "ok",
                           before |-> deals[d], after |-> row]
        /\ UNCHANGED notEscrowVars

\* create_deal asks _generate_memo for a memo; uuid.uuid4() returns hex
GenerateMemo(hex) ==
    /\ memo_uuid' = hex
    /\ memo' = _generate_memo(hex)
    /\ UNCHANGED notMemoVars

\* the slug is tracked: `self._recent_alerts[slug] = (buy_price, sell_price, now)`
Track(recent, deal, now) ==
    [recent EXCEPT ![deal.slug] =
        [buy_price |-> deal.buy_price, sell_price |-> deal.sell_price,
         timestamp |-> now]]

\* The event loop runs the call of alert_opportunity of request r until the
\* call suspends or ends. A request that is not in a call enters
\* alert_opportunity(deal), passes the threshold and the cooldown of the slug
\* and reaches `await send_arbitrage_alert(...)`, which runs at once: with the
\* bot token or the chat id missing it returns and the slug is tracked; when
\* _format_message raises, the call ends in its except branch, the slug not
\* tracked; otherwise the call is suspended in the POST. A call suspended
\* there resumes with the answer `outcome` of the Telegram API and tracks the
\* slug.
AlertOpportunityStep(r, deal, outcome) ==
    /\ IF alert_calls[r].pc = "idle"
       THEN LET before == BeforeSend(sink, all_prices)
            IN  /\ ~BelowThreshold(deal)
                /\ ~InCooldown(_recent_alerts[deal.slug], deal, alert_now)
                /\ alert_count < MaxAlerts
                /\ alert_count' = alert_count + 1
                /\ alert_calls' = [alert_calls EXCEPT ![r] =
                        IF before = "sending"
                        THEN [pc |-> "sending", deal |-> deal, ended |-> "none"]
                        ELSE [pc |-> "idle", deal |-> deal, ended |-> before]]
                /\ _recent_alerts' = IF Tracked(before)
                                     THEN Track(_recent_alerts, deal, alert_now)
                                     ELSE _recent_alerts
                /\ UNCHANGED <<published, published_at>>
       ELSE LET sent == alert_calls[r].deal
                delivery == send_arbitrage_alert(sink, all_prices, outcome)
            IN  /\ published' = IF delivery = "sent" THEN Append(published, sent)
                                ELSE published
                /\ published_at' = IF delivery = "sent" THEN Append(published_at, alert_now)
                                   ELSE published_at
                /\ _recent_alerts' = IF Tracked(delivery)
                                     THEN Track(_recent_alerts, sent, alert_now)
                                     ELSE _recent_alerts
                /\ alert_calls' = [alert_calls EXCEPT ![r] =
                        [pc |-> "idle", deal |-> sent, ended |-> delivery]]
                /\ UNCHANGED alert_count
    /\ UNCHANGED <<alert_now, sink, alert_last>>
    /\ UNCHANGED notAlertRaceVars

\* the gift_listings tables of the reconciliation runs: the database holds
\* active rows of some of the addresses, last seen when the scanner starts
StoredListings ==
    {tbl \in UNION {[S -> {ListedRow(a, p, 0) : a \in S, p \in Prices}] :
                        S \in SUBSET Addrs} :
        \A a \in DOMAIN tbl : tbl[a].nft_address = a}

\* Reconciliation runs: the adapters return nothing, the listing lists vary
InitSync == InitDb({{Slug}}, StoredListings)

NextSync ==
    \/ StartScan
    \/ PersistSnapshots(NoBulkResults, NoItemResults)
    \/ SyncBegin("service", ListingLists)
    \/ SyncSelectActive("service")
    \/ SyncSelectSales("service")
    \/ SyncCommit("service")
    \/ SyncDbError("service")
    \/ Cancel
    \/ Sleep(MaxTime)

SpecSync == InitSync /\ [][NextSync]_vars

\* Snapshot runs: the adapters' results vary, the listing lists are few
InitScan == InitWith({{}, {Slug}})

NextScan ==
    \/ StartScan
    \/ EmptyCatalog
    \/ Await(MaxScanTime)
    \/ PersistSnapshots(BulkResults, ItemResults)
    \/ SyncBegin("service", FewListingLists)
    \/ SyncSelectActive("service")
    \/ SyncSelectSales("service")
    \/ SyncCommit("service")
    \/ SyncDbError("service")
    \/ Cancel
    \/ Sleep(MaxScanTime)

SpecScan == InitScan /\ [][NextScan]_vars

\* Overlapping runs: a script scans the same database once while the service
\* runs; each of the two is in sync_all_listings with a session of its own,
\* and the awaits of the two calls interleave in every order
OverlapLists == {<< >>, <<NFTListing("id1", 80)>>, <<NFTListing("id2", 95)>>}

OverlapTables ==
    {tbl \in StoredListings :
        \A a \in DOMAIN tbl : tbl[a].price_ton = (IF a = "id1" THEN 80 ELSE 95)}

InitOverlap == InitDb({{Slug}}, OverlapTables)

NextOverlap ==
    \/ StartScan
    \/ PersistSnapshots(NoBulkResults, NoItemResults)
    \/ \E s \in Scanners : SyncBegin(s, OverlapLists)
    \/ \E s \in Scanners : SyncSelectActive(s)
    \/ \E s \in Scanners : SyncSelectSales(s)
    \/ \E s \in Scanners : SyncCommit(s)
    \/ \E s \in Scanners : SyncDbError(s)
    \/ Sleep(MaxTime)

SpecOverlap == InitOverlap /\ [][NextOverlap]_vars

\* Fetch runs: every adapter call returns or raises, nothing is listed
NoListingLists == {<< >>}

InitFetch == InitWith({{Slug, Slug2}})

NextFetch ==
    \/ StartScan
    \/ FetchBulk
    \/ FetchSingle
    \/ PersistFetched
    \/ SyncBegin("service", NoListingLists)
    \/ SyncSelectActive("service")
    \/ SyncSelectSales("service")
    \/ SyncCommit("service")
    \/ Sleep(MaxScanTime)

SpecFetch == InitFetch /\ [][NextFetch]_vars

\* Semaphore runs: the tasks of the per-item fetch phase, in every interleaving
InitSem == InitWith({{Slug}})

NextSem ==
    \/ Gather
    \/ AcquireGlobal
    \/ AcquireSource
    \/ Release

SpecSem == InitSem /\ [][NextSem]_vars

\* The semaphore runs under the event loop: a task that can go on does, and
\* every adapter call returns or raises
InitSemFair == InitWith({{Slug}})

NextSemFair ==
    \/ Gather
    \/ AcquireGlobal
    \/ AcquireSource
    \/ Release

SpecSemFair ==
    InitSemFair /\ [][NextSemFair]_vars
        /\ WF_vars(AcquireGlobal) /\ WF_vars(AcquireSource) /\ WF_vars(Release)

\* Loop runs: one start(), stop() at any moment
InitLoop == InitWith({{Slug}})

NextLoop ==
    \/ Start(1)
    \/ Stop
    \/ StopReturns
    \/ TaskStep
    \/ \E i \in DOMAIN tasks : TimeInScan(i)

\* the event loop runs every ready task, and every awaited call returns or raises
SpecLoop == InitLoop /\ [][NextLoop]_vars /\ WF_vars(TaskStep) /\ WF_vars(StopReturns)

\* Restart runs: start() and stop() in any order
InitRestart == InitWith({{Slug}})

NextRestart ==
    \/ Start(MaxTasks)
    \/ Stop
    \/ StopReturns
    \/ TaskStep

SpecRestart == InitRestart /\ [][NextRestart]_vars

\* Limiter runs: callers of one bucket; the event loop runs every ready caller
\* and time goes on
InitLimiter == InitWith({{Slug}})

NextLimiter ==
    \/ \E c \in Callers : Enter(c)
    \/ \E c \in Callers : TakeLock(c)
    \/ \E c \in Callers : SleepOver(c)
    \/ \E c \in Callers : Leave(c)
    \/ TimePasses

SpecLimiter ==
    /\ InitLimiter
    /\ [][NextLimiter]_vars
    /\ \A c \in Callers : WF_vars(TakeLock(c)) /\ WF_vars(SleepOver(c))
    /\ WF_vars(TimePasses)

\* Retry runs: calls of one wrapped function, every attempt returning or raising
InitRetry == InitWith({{Slug}})

NextRetry ==
    \/ CallWrapped
    \/ AttemptReturns
    \/ AttemptRaises
    \/ BackoffOver

SpecRetry == InitRetry /\ [][NextRetry]_vars

\* Portals runs: scans that call fetch_all_prices, every request answered
\* with any of the responses
InitPortals == InitWith({{Slug}})

NextPortals ==
    \/ \E t \in BOOLEAN, tok \in {NoToken, ManualToken} :
            Configure([telethon |-> t, token |-> tok])
    \/ TokenExpires
    \/ \E gen_ok \in BOOLEAN : FetchAllPrices(gen_ok)
    \/ \E status \in Responses, floors \in BOOLEAN : Post(status, floors)

SpecPortals == InitPortals /\ [][NextPortals]_vars

\* Detector runs: every result of at most one row per source; the rows of the
\* first two tiers take every price and every fair value, the rows of the
\* third tier one price and a trusted fair value or none
SnapshotRow ==
    [source : DetSources, price : DetPrices, tier : DetTiers \ {"ultra_rare"}]
        \cup [source : DetSources, price : {70}, tier : {"ultra_rare"}]

FairMaps ==
    {fair \in [DetTiers -> FairValues] :
        fair["ultra_rare"] \in {NoFairValue, [median_price |-> 100, confidence |-> 20]}}

RowLists ==
    {rows \in UNION {[1..n -> SnapshotRow] : n \in 0..Cardinality(DetSources)} :
        \A i, j \in DOMAIN rows : i # j => rows[i].source # rows[j].source}

InitDetect == InitWith({{Slug}})

NextDetect ==
    /\ det_pc = "idle"
    /\ \E rows \in RowLists, fair \in FairMaps : CheckArbitrage(rows, fair)

SpecDetect == InitDetect /\ [][NextDetect]_vars

\* Rare-at-floor runs: calls of check_and_alert up to three hours apart, each
\* NFT listed or not at one of two prices
RarePrices == {1000, 2000}

RareListingSets ==
    {ls \in SUBSET [nft_address : RareAddresses, rarity_tier : {"rare", "ultra_rare"},
                    price_ton : RarePrices] :
        /\ \A l \in ls : [nft_address |-> l.nft_address, rarity_tier |-> l.rarity_tier]
                            \in RareItems
        /\ \A l, m \in ls : l.nft_address = m.nft_address => l = m}

SaleInfos == {[count |-> 0, median |-> 0], [count |-> 2, median |-> 1500],
              [count |-> 3, median |-> 1500]}

InitRare == InitWith({{Slug}})

NextRare ==
    \E passed \in 0..3, ls \in RareListingSets, floor \in {0, 1000}, info \in SaleInfos :
        CheckAndAlert(passed, ls, floor, info)

SpecRare == InitRare /\ [][NextRare]_vars

\* Alerter runs: opportunities handed to alert_opportunity as time passes, the
\* Telegram API answering or failing the POSTs it is sent
InitAlert == InitWith({{Slug}})

NextAlert ==
    \/ ConfigureSink
    \/ AlertTimePasses
    \/ \E deal \in Deals, outcome \in {"ok", "error"} : AlertOpportunity(deal, outcome)

SpecAlert == InitAlert /\ [][NextAlert]_vars

\* Tier runs: the serials around the thresholds, the special numbers, the
\* numbers of one repeated digit, and no serial; no attributes, a black or a
\* blue backdrop, or another attribute
TierSerials ==
    {NoSerial} \cup (0..10) \cup (95..105) \cup (995..1005) \cup (4995..5005)
        \cup {420, 777, 1111, 1234, 2222, 5555, 6969, 8888, 9999, 11111, 12345}

TierAttributes ==
    {NoAttrs, [Backdrop |-> "Black"], [Backdrop |-> "Blue"], [Model |-> "Black"]}

InitTier == InitWith({{Slug}})

NextTier ==
    \E serial \in TierSerials, attributes \in TierAttributes :
        GetRarityTier(serial, attributes)

SpecTier == InitTier /\ [][NextTier]_vars

\* The confidence runs: the total count of the sales, the recent ones among
\* them and the age of the last sale vary
InitConf == InitWith({{Slug}})

\* one call in a run
NextConf ==
    /\ conf_score = NoScore
    /\ \E total_count \in 0..MaxSales, days_since_last \in 0..MaxLastDays :
        \E recent_count \in 0..Min(total_count, 4) :
            CalculateConfidence(total_count, recent_count, days_since_last)

SpecConf == InitConf /\ [][NextConf]_vars

\* The normalization runs: a raw name is put together from pieces of the
\* noise tokens, serials, blanks and the names of the override table
NameChunks ==
    {<<"n">>,
     <<"f", "t">>,
     <<"N", "F", "T">>,
     <<"g", "i">>,
     <<"G", "i", "f", "t">>,
     <<"#", "1">>,
     <<"(", "1", ")">>,
     <<" ">>,
     <<"t", "e", "l", "e">>,
     <<"g", "r", "a", "m">>,
     <<"b", "l", "u", "e", "s", "t", "a", "r">>,
     <<"d", "e", "l", "u", "x", "e">>,
     <<"r", "e", "d", "b", "a", "l", "l", "o", "o", "n">>,
     <<"-">>}

RECURSIVE RawNames(_)
RawNames(n) ==
    IF n = 0 THEN {<< >>}
    ELSE RawNames(n - 1) \cup {a \o c : a \in RawNames(n - 1), c \in NameChunks}

InitNorm == InitWith({{Slug}})

NextNorm ==
    \/ /\ norm_calls = 0
       /\ \E raw_name \in RawNames(MaxChunks) : NormalizeName(raw_name)
    \/ NormalizeAgain

SpecNorm == InitNorm /\ [][NextNorm]_vars

\* The digest runs: the scan loop ticks, up to two hours pass between scans
InitDigest == InitWith({{Slug}})

NextDigest ==
    \/ RunScanCycle
    \/ \E h \in 0..2 : IntervalSleep(h)

\* the loop runs its cycle and every sleep returns
SpecDigest ==
    InitDigest /\ [][NextDigest]_vars
        /\ WF_vars(RunScanCycle) /\ WF_vars(\E h \in 0..2 : IntervalSleep(h))

\* no check_deposit is between its load and its commit
NoCallInProgress == \A s \in SessionIds : db_sessions[s].pc = "idle"

\* The escrow runs, one request at a time: deals are created and their two
\* sides confirmed in every order
InitEscrow == InitWith({{Slug}})

NextEscrow ==
    \/ \E d \in DealIds : CreateDeal(d)
    \/ /\ NoCallInProgress
       /\ \E s \in SessionIds, d \in DealIds, side \in Sides : CheckDepositLoads(s, d, side)
    \/ \E s \in SessionIds : CheckDepositCommits(s)

SpecEscrow == InitEscrow /\ [][NextEscrow]_vars

\* The escrow runs with overlapping requests: each request has its own session
InitEscrowRace == InitWith({{Slug}})

NextEscrowRace ==
    \/ \E d \in DealIds : CreateDeal(d)
    \/ \E s \in SessionIds, d \in DealIds, side \in Sides : CheckDepositLoads(s, d, side)
    \/ \E s \in SessionIds : CheckDepositCommits(s)

SpecEscrowRace == InitEscrowRace /\ [][NextEscrowRace]_vars

\* The memo runs: a version 4 UUID has 32 hexadecimal digits, the 13th being
\* 4 and the 17th one of 8, 9, a, b; the digits of the drawn UUIDs vary at
\* the ends of the slice
VaryAt == {1, 11, 12, 14}

HexSample == {"0", "7", "a", "f"}

Uuid4Base(i) == IF i = 13 THEN "4" ELSE IF i = 17 THEN "b" ELSE TestUuidHex[i]

Uuid4s ==
    {[i \in 1..32 |-> IF i \in VaryAt THEN f[i] ELSE Uuid4Base(i)] :
        f \in [VaryAt -> HexSample]}

InitMemo == InitWith({{Slug}})

NextMemo ==
    /\ memo = << >>
    /\ \E hex \in Uuid4s \cup {TestUuidHex} : GenerateMemo(hex)

SpecMemo == InitMemo /\ [][NextMemo]_vars

\* The runs of overlapping gift-list requests: each request calls
\* alert_opportunity for the slug, the event loop switching between them
\* where a call is suspended
InitRace == InitWith({{Slug}})

NextRace ==
    \/ ConfigureSink
    \/ AlertTimePasses
    \/ \E r \in RequestIds, deal \in Deals, outcome \in {"ok", "error"} :
            AlertOpportunityStep(r, deal, outcome)

SpecRace == InitRace /\ [][NextRace]_vars

----------------------------------------------------------------------------
(* Reading a step or a state of the reconciler *)

\* a call of sync_all_listings ends in this step, by its commit or by an
\* exception of its own
SyncStep ==
    /\ pc' # "cancelled"
    /\ \E s \in Scanners :
        /\ sessions[s].pc \in {"select_sales", "commit"}
        /\ sessions'[s].pc \in {"idle", "ended"}

\* ... and its commit succeeded
Committed == SyncStep /\ sync'.outcome = "committed"

\* ... with the database reachable: its commit, if it came to it, did not fail
Reconciled == SyncStep /\ sync'.outcome # "db_error"

IsActive(tbl, a) == a \in DOMAIN tbl /\ tbl[a].sold_at = NoTime
IsSold(tbl, a) == a \in DOMAIN tbl /\ tbl[a].sold_at # NoTime

\* a sale of a was detected within the hour before `now`
RecentlySold(sls, a, now) ==
    \E s \in BagToSet(sls) : s.nft_address = a /\ now - s.detected_at <= HourUnits

\* the sale rows of address a that the step adds
AddedSales(a) ==
    {r \in BagToSet(sales') : r.nft_address = a /\ CopiesIn(r, sales') > CopiesIn(r, sales)}

\* what a step does to the row of address a
EffSold(a)     == IsActive(listings, a) /\ listings'[a].sold_at = sync'.now
EffUpdated(a)  == IsActive(listings, a) /\ listings'[a].last_seen_at = sync'.now
EffInserted(a) == /\ ~IsActive(listings, a)
                  /\ IsActive(listings', a)
                  /\ listings'[a].first_seen_at = sync'.now

----------------------------------------------------------------------------
(* Claims *)

\* C1: in a sync_all_listings with the database reachable, every listing that
\* was active, has a positive price, has no sale in the last hour and is absent
\* from the inbound set is marked sold at now and gets exactly one new sale row
\* carrying the row's stored price, stored rarity tier and marketplace; every
\* active listing that is in the inbound set stays active with last_seen_at
\* set to now.
C1_DisappearedSoldSeenKept ==
    [][Reconciled =>
        \A a \in DOMAIN listings :
            /\ ( /\ IsActive(listings, a)
                 /\ listings[a].price_ton > 0
                 /\ ~RecentlySold(sales, a, sync'.now)
                 /\ a \notin DOMAIN sync'.inbound )
               => /\ listings'[a].sold_at = sync'.now
                  /\ Cardinality(AddedSales(a)) = 1
                  /\ \A r \in AddedSales(a) :
                        /\ CopiesIn(r, sales') = CopiesIn(r, sales) + 1
                        /\ r.sale_price_ton = listings[a].price_ton
                        /\ r.rarity_tier = listings[a].rarity_tier
                        /\ r.marketplace = listings[a].marketplace
                        /\ r.detected_at = sync'.now
            /\ (IsActive(listings, a) /\ a \in DOMAIN sync'.inbound)
               => /\ listings'[a].sold_at = NoTime
                  /\ listings'[a].last_seen_at = sync'.now
    ]_vars

\* C2: a second sync_all_listings with the same inbound set, within one hour
\* of a first one that the database did not fail, records no additional sale
\* row.
C2_SaleIdempotence ==
    [][(SyncStep /\ sync'.rerun) => sales' = sales]_vars

\* a re-run with the same inbound set right after a run that recorded a sale
C2_Witness ==
    /\ sync.rerun
    /\ sync.outcome = "committed"
    /\ \E s \in BagToSet(sales) :
        /\ s.detected_at < sync.now
        /\ sync.now - s.detected_at <= HourUnits
        /\ s.nft_address \notin DOMAIN sync.inbound

\* C3: the sale table never holds two sales of one item identifier whose
\* detection times are within one hour of each other.
C3_OneSalePerHour ==
    \A s \in BagToSet(sales) :
        /\ CopiesIn(s, sales) = 1
        /\ \A r \in BagToSet(sales) :
            (r # s /\ r.nft_address = s.nft_address)
                => \/ r.detected_at - s.detected_at > HourUnits
                   \/ s.detected_at - r.detected_at > HourUnits

\* an item with a sale is seen again in the inbound set of a later tick within the hour
C3_Witness ==
    \E s \in BagToSet(sales) :
        /\ sync.now > s.detected_at
        /\ sync.now - s.detected_at <= HourUnits
        /\ s.nft_address \in DOMAIN sync.inbound

\* C4: in a transition from active set A to inbound set I with the database
\* reachable, no identifier is handled in two categories: A \cap I is updated,
\* I \ A is inserted, and of A \ I the rows with a positive price and no sale
\* in the last hour are sold. (The claim also counts the other rows of A \ I,
\* which the reconciler skips, as handled.)
C4_Conservation ==
    [][Reconciled =>
        LET A == sync'.active
            I == DOMAIN sync'.inbound
        IN  /\ A = {a \in DOMAIN listings : IsActive(listings, a)}
            /\ \A a \in A \cap I : EffUpdated(a) /\ ~EffSold(a) /\ ~EffInserted(a)
            /\ \A a \in I \ A : EffInserted(a) /\ ~EffSold(a) /\ ~EffUpdated(a)
            /\ \A a \in A \ I :
                (listings[a].price_ton > 0 /\ ~RecentlySold(sales, a, sync'.now))
                    => EffSold(a) /\ ~EffUpdated(a) /\ ~EffInserted(a)
    ]_vars

\* C5: after sync_all_listings (database reachable), every id of I \ A, also
\* one whose earlier listing was marked sold, has one active row with
\* first_seen_at = last_seen_at = now.
C5_RelistedInserted ==
    [][Reconciled =>
        \A a \in DOMAIN sync'.inbound \ sync'.active :
            /\ IsActive(listings', a)
            /\ listings'[a].first_seen_at = sync'.now
            /\ listings'[a].last_seen_at = sync'.now
    ]_vars

\* C6: once a listing row has sold_at set, no later step changes the row.
C6_SoldRowImmutable ==
    [][\A a \in DOMAIN listings :
          listings[a].sold_at # NoTime
              => a \in DOMAIN listings' /\ listings'[a] = listings[a]
    ]_vars

\* a tick that found the address of a sold row listed again ended, the row as it was
C6_Witness ==
    \E a \in DOMAIN listings :
        /\ listings[a].sold_at # NoTime
        /\ sync.now > listings[a].sold_at
        /\ a \in DOMAIN sync.inbound

\* a sale row exists for an address exactly when its listing row is sold, and
\* the row is sold at the time of one of its sales
SaleIffSold ==
    /\ \A s \in BagToSet(sales) : IsSold(listings, s.nft_address)
    /\ \A a \in DOMAIN listings :
          listings[a].sold_at # NoTime
              => \E s \in BagToSet(sales) :
                    s.nft_address = a /\ s.detected_at = listings[a].sold_at

\* C7: a failed commit leaves no sale row and no listing change of that tick,
\* and in every persisted state a sale row exists exactly when the listing row
\* has sold_at set.
C7_FailedCommitRollsBack ==
    /\ []SaleIffSold
    /\ [][(SyncStep /\ sync'.outcome # "committed")
            => listings' = listings /\ sales' = sales]_vars

\* a commit failed while its session held a new sale, in a database where two
\* overlapping calls had each recorded the sale of one row
C7_Witness ==
    /\ sync.outcome = "db_error"
    /\ sync.new_sales > 0
    /\ \E s \in BagToSet(sales) : CopiesIn(s, sales) = 2

\* phase 3 runs in this step
Phase3Step == phase3' # phase3

\* C9: no snapshot row has a price <= 0, and phase 3 builds no row of a price
\* <= 0: every price it hands to the constructor is positive.
C9_SnapshotPricesPositive ==
    /\ \A r \in snapshots : r.price_amount > 0
    /\ \A c \in phase3.built : c.price > 0

\* a tick skipped a non-positive price and set out to build the row of another price
C9_Witness ==
    phase3.skipped /\ phase3.built # {}

\* C10: the rows of one tick share one scan timestamp, the one reading of the
\* clock in phase 3, which every row the tick builds is given; and a later
\* tick's timestamp is strictly greater than an earlier tick's.
C10_ScanTimestamps ==
    /\ [](\A r1, r2 \in snapshots :
            /\ r1.tick = r2.tick => r1.scanned_at = r2.scanned_at
            /\ r1.tick < r2.tick => r1.scanned_at < r2.scanned_at)
    /\ [](\A c \in phase3.built : c.scanned_at = phase3.scanned_at)
    /\ [][Phase3Step => /\ phase3'.tick > phase3.tick
                        /\ phase3'.scanned_at > phase3.scanned_at]_vars

\* a second tick read its timestamp after its scan had started and gave it to
\* the row of a bulk price
C10_Witness ==
    /\ phase3.tick > 1
    /\ scan_start < phase3.scanned_at
    /\ \E c \in phase3.built : c.source = BulkSource

\* the snapshot rows of the current tick that stem from adapter call c
RowsOfCall(tbl, c) ==
    {r \in tbl : /\ r.tick = tick
                 /\ r.source = c.source
                 /\ (c.slug = "*" \/ r.gift_slug = c.slug)}

\* C11: an adapter call that raises does not end the tick: phase 1 is followed
\* by phase 2 and phase 2 by the snapshot write; a call that raised contributes
\* no snapshot row, and every observation (known slug, positive price) returned
\* by a call that did not raise is persisted as a snapshot of the tick.
C11_AdapterErrorsIsolated ==
    [][/\ (pc = "fetch" /\ pc' # "fetch") => pc' = "gather"
       /\ (pc = "gather" /\ pc' # "gather") =>
            /\ pc' = "sync"
            /\ \A c \in calls :
                IF c.raised
                THEN RowsOfCall(snapshots', c) = {}
                ELSE \A o \in c.obs :
                        (o[1] \in catalog /\ o[2] > 0)
                            => \E r \in RowsOfCall(snapshots', c) :
                                    /\ r.gift_slug = o[1]
                                    /\ r.price_amount = o[2]
                                    /\ r.scanned_at = clock
    ]_vars

\* C12: at every moment of the per-item fetch phase at most GLOBAL_CONCURRENCY
\* tasks hold the global semaphore, so at most that many adapter calls are in
\* flight, and at most PER_SOURCE_CONCURRENCY adapter calls of each source.
C12_ConcurrencyLimits ==
    /\ Total(waiting) + Total(in_flight) <= GLOBAL_CONCURRENCY
    /\ Total(in_flight) <= GLOBAL_CONCURRENCY
    /\ \A s \in ItemSources : in_flight[s] <= PER_SOURCE_CONCURRENCY(s)

\* both limits bind: a task waits for the exhausted global semaphore while
\* every source runs its full number of calls and has tasks waiting
C12_Witness ==
    /\ _global_sem = 0
    /\ Total(queued) > 0
    /\ \A s \in ItemSources :
        in_flight[s] = PER_SOURCE_CONCURRENCY(s) /\ waiting[s] > 0

\* the loop tasks that are inside _run_scan_cycle
Cycling == {i \in DOMAIN tasks : tasks[i].pc \in InCycle}

\* C13: for any order of start() and stop() calls on one ContinuousScanner, at
\* most one scan cycle is executing at any time.
C13_TicksDoNotOverlap ==
    Cardinality(Cycling) <= 1

\* task i begins a cycle in this step
CycleBegins(i) == tasks[i].pc # "scan" /\ tasks'[i].pc = "scan"

\* C14 (as stated): when a cycle took longer than the interval, the next cycle
\* starts immediately after it, with no further wait.
C14_Original ==
    [][\A i \in DOMAIN tasks :
          (CycleBegins(i) /\ tasks[i].pc = "sleep" /\ tasks[i].elapsed > scan_interval)
              => tasks'[i].waited = 0
    ]_vars

\* C14 (amended): after every cycle, whatever its duration, the loop sleeps the
\* full interval before the next cycle starts.
C14_FixedDelay ==
    [][\A i \in DOMAIN tasks :
          (CycleBegins(i) /\ tasks[i].pc = "sleep")
              => tasks'[i].waited = scan_interval
    ]_vars

\* a cycle that began a full interval after a cycle that had overrun the interval
C14_Witness ==
    \E i \in DOMAIN tasks :
        /\ tasks[i].pc = "scan"
        /\ tasks[i].last_elapsed > scan_interval
        /\ tasks[i].waited = scan_interval

\* C15: while the scanner is not stopped, a cycle that failed with an
\* exception is followed by a new cycle that starts from scratch.
C15_FailedTickFollowed ==
    (Len(tasks) >= 1 /\ tasks[1].log = "failed")
        ~> \/ ~_is_running
           \/ /\ tasks[1].pc = "scan"
              /\ tasks[1].log = "running"
              /\ tasks[1].elapsed = 0
              /\ ~tasks[1].scanned
              /\ tasks[1].invalidations = 0

\* a cycle runs after a cycle that failed, the scanner still running
C15_Witness ==
    /\ _is_running
    /\ Len(tasks) >= 1
    /\ tasks[1].pc = "scan"
    /\ tasks[1].last_log = "failed"

\* C16: a cycle whose run_full_scan returned has called the cache invalidation
\* exactly once when it ends, and whether the invalidation raised or not the
\* cycle is logged complete, keeps its count in total_scans and the loop goes on
\* to its sleep.
C16_CacheInvalidatedOnce ==
    /\ [](\A i \in DOMAIN tasks :
            /\ tasks[i].invalidations <= 1
            /\ (tasks[i].scanned /\ tasks[i].pc \in {"exit", "sleep"})
                => /\ tasks[i].invalidations = 1
                   /\ tasks[i].log = "complete")
    /\ [][\A i \in DOMAIN tasks :
            (tasks[i].pc = "cache" /\ tasks'[i].invalidations = 1)
                => /\ tasks'[i].pc = "exit"
                   /\ total_scans' = total_scans
                   /\ tasks'[i].log = "complete"
       ]_vars

\* the invalidation raised, the cycle was logged complete and the loop sleeps
C16_Witness ==
    \E i \in DOMAIN tasks :
        /\ tasks[i].pc = "sleep"
        /\ tasks[i].scanned
        /\ tasks[i].cache_raised
        /\ tasks[i].log = "complete"
        /\ total_scans > 0

\* C17: once stop() is called no cycle begins, and the loop task ends and
\* stop() returns, whether the task was inside a cycle or asleep.
C17_ShutdownHonoured ==
    /\ [][\A i \in DOMAIN tasks : CycleBegins(i) => ~stop_called]_vars
    /\ stop_called ~> /\ stop_waits = {}
                      /\ (_task = 0 \/ tasks[_task].pc = "done")

\* stop() has returned after cancelling a task that was inside a cycle
C17_Witness ==
    /\ stop_called
    /\ stop_waits = {}
    /\ _task # 0
    /\ tasks[_task].pc = "done"
    /\ tasks[_task].log = "running"

\* C18: at no moment do more than max_requests grants of the bucket lie within
\* the last window_sec (the window (now - window_sec, now]), however many
\* callers there are.
C18_LimiterCapacity ==
    Len(grants) <= max_requests

\* the bucket is full, a caller is held back and another one asks for the lock
C18_Witness ==
    /\ Len(grants) = max_requests
    /\ \E c \in Callers : callers[c].pc = "sleep" /\ callers[c].sleep_time > 0
    /\ \E c \in Callers : callers[c].pc = "lock"

\* C19: every caller of acquire(key), also one that finds the bucket at
\* capacity, is granted in the end.
C19_AcquireReturns ==
    \A c \in Callers :
        (callers[c].pc \in {"lock", "sleep", "relock"}) ~> (callers[c].pc = "granted")

\* the wrapper has surfaced the failure of the call
Surfaced == retry_pc = "raised"

\* C20 (as stated): the wrapped call is attempted at most 3 times in total,
\* and the wrapper never sleeps after the last attempt.
C20_Original ==
    /\ Len(history) <= 3
    /\ Surfaced => Len(delays) = Len(history) - 1

\* C20 (amended): the wrapped call is attempted at most max_retries + 1 = 4
\* times in total (one attempt and three retries), and the wrapper never sleeps
\* after the last attempt: it has delays once between two attempts, the delays
\* being 1, 2, 4.
C20_AttemptsBounded ==
    /\ Len(history) <= max_retries + 1
    /\ retry_pc \in {"raised", "returned"} => Len(delays) = Len(history) - 1
    /\ retry_pc = "sleep" => Len(delays) = Len(history) /\ Len(history) <= max_retries
    /\ \A k \in DOMAIN delays : delays[k] = Delay(k - 1)

\* all attempts failed with a retried exception and the failure was surfaced
C20_Witness ==
    /\ Surfaced
    /\ Len(history) = max_retries + 1
    /\ Len(delays) = max_retries
    /\ \A k \in DOMAIN history : RetryOn(history[k]) /\ ~ClientError4xx(history[k])

\* the failures the claim calls transient: network errors, timeouts, HTTP
\* failures outside 4xx and HTTP 429
Transient(exc) ==
    \/ exc.type \in {"ClientError", "TimeoutError"}
    \/ exc.type = "ClientResponseError"
        /\ (exc.status < 400 \/ exc.status >= 500 \/ exc.status = 429)

\* C21: an attempt that fails with an HTTP 4xx status other than 429 is the
\* last of its call, the failure being raised with no backoff sleep after it,
\* while an attempt that fails with a transient network error, a non-4xx HTTP
\* status or HTTP 429 is followed, as long as retries are left, by a backoff
\* sleep and then the next attempt.
C21_RetryClassification ==
    \A k \in DOMAIN history :
        /\ (history[k].type = "ClientResponseError" /\ history[k].status \in 400..499
                /\ history[k].status # 429)
            => k = Len(history) /\ retry_pc = "raised" /\ Len(delays) = k - 1
        /\ (Transient(history[k]) /\ k <= max_retries)
            => /\ Len(delays) >= k
               /\ delays[k] = Delay(k - 1)
               /\ k = Len(history) =>
                    \/ retry_pc = "sleep"
                    \/ retry_pc = "call" /\ attempt = k
               /\ k < Len(history) => attempt >= k

\* a call whose first attempt was answered with HTTP 429 and retried, and whose
\* second attempt was answered with HTTP 404 and raised at once
C21_Witness ==
    /\ Len(history) = 2
    /\ history[1] = [type |-> "ClientResponseError", status |-> 429]
    /\ history[2] = [type |-> "ClientResponseError", status |-> 404]
    /\ retry_pc = "raised"
    /\ Len(delays) = 1

\* C22: when a request of fetch_all_prices is answered with HTTP 401 or 403,
\* the cached token is invalidated and no further request of that call (of
\* that tick) is sent with the rejected token.
C22_AuthErrorSkipsAdapter ==
    \A i \in DOMAIN requests :
        AuthRejected(requests[i].status) =>
            /\ _token_cache.token # requests[i].token
            /\ \A j \in DOMAIN requests : j > i => requests[j].token # requests[i].token

\* the calls of collect_opportunity made for a tier
CollectedFor(tier) == SelectSeq(collected, LAMBDA o : o.tier = tier)

\* the cheapest and the highest price of a tier's rows
PricesOf(tier) == {det_rows[i].price : i \in {j \in DOMAIN det_rows : det_rows[j].tier = tier}}
Cheapest(tier) == CHOOSE p \in PricesOf(tier) : \A q \in PricesOf(tier) : p <= q
Highest(tier) == CHOOSE p \in PricesOf(tier) : \A q \in PricesOf(tier) : p >= q

\* the fair value of a tier is trusted: confidence >= 0.2
Trusted(tier) == det_fair[tier] # NoFairValue /\ det_fair[tier].confidence >= 20

\* a tier whose cheapest listing is at most 0.7 x the median sale price
UndervaluedGroup(tier) ==
    /\ PricesOf(tier) # {}
    /\ Trusted(tier)
    /\ Cheapest(tier) > 0
    /\ 10 * Cheapest(tier) <= 7 * det_fair[tier].median_price

\* exactly one opportunity for the tier, undervalued, to be sold at the
\* median sale price on "market (avg)"
OneUndervalued(tier) ==
    /\ Len(CollectedFor(tier)) = 1
    /\ CollectedFor(tier)[1].alert_type = "undervalued"
    /\ CollectedFor(tier)[1].sell_source = "market (avg)"
    /\ CollectedFor(tier)[1].sell_price = det_fair[tier].median_price
    /\ CollectedFor(tier)[1].buy_price = Cheapest(tier)

\* C23: every group with a trusted fair value whose cheapest listing is
\* positive and at most 0.7 x the median sale price gets exactly one
\* opportunity, undervalued, with sell_source "market (avg)" and sell_price the
\* median sale price.
C23_Undervalued ==
    \A tier \in DetTiers : UndervaluedGroup(tier) => OneUndervalued(tier)

\* a tier with a trusted fair value whose cheapest listing is above 0.7 x the
\* median sale price and which has rows of at least two sources
ArbitrageGroup(tier) ==
    /\ Cardinality({j \in DOMAIN det_rows : det_rows[j].tier = tier}) >= 2
    /\ Trusted(tier)
    /\ Cheapest(tier) > 0
    /\ 10 * Cheapest(tier) > 7 * det_fair[tier].median_price

\* min(highest-priced listing, 1.1 x median sale price)
CappedSell(tier) ==
    IF 10 * Highest(tier) <= 11 * det_fair[tier].median_price
    THEN Highest(tier)
    ELSE (11 * det_fair[tier].median_price) \div 10

\* C24: for a group with a trusted fair value, a cheapest listing above
\* 0.7 x median and at least two sources, an arbitrage opportunity is emitted
\* if and only if min(highest listing, 1.1 x median) minus the cheapest
\* listing is at least min_spread; it is the only one, and its sell price is
\* that capped price.
C24_CappedArbitrage ==
    \A tier \in DetTiers : ArbitrageGroup(tier) =>
        IF CappedSell(tier) - Cheapest(tier) >= 30
        THEN /\ Len(CollectedFor(tier)) = 1
             /\ CollectedFor(tier)[1].alert_type = "arbitrage"
             /\ CollectedFor(tier)[1].sell_price = CappedSell(tier)
             /\ CollectedFor(tier)[1].buy_price = Cheapest(tier)
             /\ CollectedFor(tier)[1].spread_ton = CappedSell(tier) - Cheapest(tier)
        ELSE CollectedFor(tier) = << >>

\* a tier with no fair value, or one of confidence below 0.2
ColdGroup(tier) == PricesOf(tier) # {} /\ ~Trusted(tier)

\* the cold-start conditions of an alert: two sources, a ratio of at most 2.0
\* and a spread of at least min_spread
ColdAlert(tier) ==
    /\ Cardinality({j \in DOMAIN det_rows : det_rows[j].tier = tier}) >= 2
    /\ Highest(tier) <= 2 * Cheapest(tier)
    /\ Highest(tier) - Cheapest(tier) >= 30

\* C25: for a group with no fair value or a confidence below 0.2, an
\* arbitrage_unconfirmed opportunity (from the cheapest to the highest listing)
\* is emitted if and only if the group has at least two sources, highest /
\* cheapest <= 2.0 and highest - cheapest >= min_spread; no other opportunity
\* is emitted for it, and none at all when the ratio exceeds 2.0.
C25_ColdStart ==
    \A tier \in DetTiers : ColdGroup(tier) =>
        IF ColdAlert(tier)
        THEN /\ Len(CollectedFor(tier)) = 1
             /\ CollectedFor(tier)[1].alert_type = "arbitrage_unconfirmed"
             /\ CollectedFor(tier)[1].buy_price = Cheapest(tier)
             /\ CollectedFor(tier)[1].sell_price = Highest(tier)
        ELSE CollectedFor(tier) = << >>

\* C26: over the calls of check_and_alert in one process, two rare_at_floor
\* alerts for the same nft_address are at least 4 hours apart, and an NFT that
\* qualifies at a call is alerted at that call unless it was alerted less than
\* 4 hours before.
C26_RareDedup ==
    /\ \A r, q \in rare_log :
        (r.nft_address = q.nft_address /\ r.at < q.at) => q.at - r.at >= 4
    /\ \A a \in rare_last.qualified :
        \E r \in rare_log :
            /\ r.nft_address = a
            /\ r.at <= rare_last.now
            /\ rare_last.now - r.at < 4
            /\ (\A q \in rare_log : q.nft_address = a => q.at <= r.at)
            /\ (r.at < rare_last.now =>
                    \A q \in rare_log : ~(q.nft_address = a /\ q.at = rare_last.now))

\* an NFT alerted at hour 0 and, still qualifying, alerted again at hour 4
C26_Witness ==
    /\ [nft_address |-> "EQ-rare", at |-> 0] \in rare_log
    /\ [nft_address |-> "EQ-rare", at |-> 4] \in rare_log
    /\ rare_last.now = 4
    /\ "EQ-rare" \in rare_last.qualified

\* the publications of a deal so far
Publications(deal) == Cardinality({k \in DOMAIN published : published[k] = deal})

\* C27: an opportunity (slug, buy_source, sell_source, buy_price, sell_price)
\* is published to the sink exactly once, however often it is emitted, and an
\* opportunity whose prices differ from those fired for its key is new and
\* published: no deal has two publications, and after a call that handed the
\* alerter a deal of a sufficient spread, the sink configured and the Telegram
\* API answering, that deal has one publication.
C27_AlerterDedup ==
    /\ \A deal \in Deals : Publications(deal) <= 1
    /\ (sink /\ alert_last.api = "ok" /\ alert_last.delivery \notin {"none", "below"})
            => Publications(alert_last.deal) = 1

\* C29: an entry of the alerter's map of fired deals is set only by a call
\* whose message was delivered to the sink: a call whose delivery failed or
\* was skipped (sink not configured) leaves the map as it was.
C29_FiredOnlyOnDelivery ==
    [][_recent_alerts' # _recent_alerts => Len(published') = Len(published) + 1]_vars

\* the groups in which the scan finds a deal: an undervalued floor, an
\* arbitrage under the capped sell price or an unconfirmed arbitrage, each of
\* a spread of at least min_spread
Found ==
    {tier \in DetTiers :
        \/ UndervaluedGroup(tier) /\ det_fair[tier].median_price - Cheapest(tier) >= 30
        \/ ArbitrageGroup(tier) /\ CappedSell(tier) - Cheapest(tier) >= 30
        \/ ColdGroup(tier) /\ ColdAlert(tier)}

\* C28: the opportunities of a scan go to the message sink as a single
\* summary message when the scan found at least 3 new deals: a scan of a
\* fresh process that found 3 deals has handed each of them to the alerter
\* and has ended with the call that sends the summary.
C28_SummaryPerScan ==
    (det_pc # "idle" /\ Cardinality(Found) >= 3) =>
        /\ Len(collected) = Cardinality(Found)
        /\ det_pc = "done"

\* the attributes contain Backdrop = Black
BlackBackdrop(attributes) ==
    "Backdrop" \in DOMAIN attributes /\ attributes["Backdrop"] = "Black"

\* the serial is written with one digit repeated
RECURSIVE OneDigit(_, _)
OneDigit(n, d) == IF n < 10 THEN n = d ELSE n % 10 = d /\ OneDigit(n \div 10, d)

\* the ordered rules of the rarity tier, first match wins
TierRules(serial, attributes) ==
    IF serial = NoSerial THEN "unknown"
    ELSE IF serial < 100 \/ BlackBackdrop(attributes) THEN "ultra_rare"
    ELSE IF serial < 1000 THEN "rare"
    ELSE IF serial \in {777, 420, 1234, 5555, 6969, 8888} \/ OneDigit(serial, serial % 10)
    THEN "rare"
    ELSE IF serial < 5000 THEN "uncommon"
    ELSE "common"

\* C30: for every serial and attributes the tier function returns the result
\* of the ordered rules: serial missing -> unknown; serial < 100 or Backdrop =
\* Black -> ultra_rare; serial < 1000 -> rare; a special serial or one of
\* identical digits -> rare; serial < 5000 -> uncommon; otherwise common;
\* serial 0 and the boundaries 99/100, 999/1000, 4999/5000 included.
C30_TierRules ==
    tier_result # "none" => tier_result = TierRules(tier_serial, tier_attributes)

----------------------------------------------------------------------------
(* The confidence score *)

\* _calculate_confidence has returned for at least one sale
ScoredSales == conf_score # NoScore /\ conf_total >= 1

\* the formulas of the claim in exact arithmetic, in 240ths of 1.0 (240 is
\* divisible by 10, 3 and 16, so each term is a whole number):
\* min(n/10, 1) + min(recent/3, 0.3)
Gain(n, recent) == Min(24 * n, 240) + Min(80 * recent, 72)

\* max((days_since_last - 14)/16, 0)
Staleness(days) == Max(15 * (days - 14), 0)

\* clip to [0, 1]
Clip240(k) == Max(0, Min(240, k))

\* k * m
Times(m, k) == Carry(k * m[1], k * m[2], k * m[3])

\* the float x is k/240 up to the rounding of the float operations: it
\* differs from k/240 by at most 2^-52, the spacing of the doubles at 1.0
NearExact(x, k) ==
    LET scaled == Times(x.m, 240)
        exact == <<k * 2^16, 0, 0>>
        distance == IF LessLimbs(scaled, exact) THEN SubLimbs(exact, scaled)
                    ELSE SubLimbs(scaled, exact)
    IN  /\ ~x.neg
        /\ ~LessLimbs(Times(<<0, 0, 16>>, 240), distance)

\* 0.0 <= x <= 1.0
InUnitInterval(x) == ~Flt(x, Zero) /\ ~Flt(FloatOne, x)

\* C31 as stated: for n >= 1 sales the score is
\* clip(min(n/10, 1) + min(recent/3, 0.3) - max((days_since_last - 14)/16, 0)),
\* as a float, and lies within [0, 1].
C31_Original ==
    ScoredSales =>
        /\ NearExact(conf_score,
                     Clip240(Gain(conf_total, conf_recent) - Staleness(conf_days)))
        /\ InUnitInterval(conf_score)

\* C31: for n >= 1 sales the score is clip(min(n/10, 1) + min(recent/3, 0.3)
\* - min(max((days_since_last - 14)/16, 0), 0.4)), as a float: the staleness
\* penalty is capped at 0.4; the score lies within [0, 1].
C31_Confidence ==
    ScoredSales =>
        /\ NearExact(conf_score,
                     Clip240(Gain(conf_total, conf_recent)
                                - Min(Staleness(conf_days), 96)))
        /\ InUnitInterval(conf_score)

\* ten sales, none of them recent, the last one 30 days ago: 1.0 - 0.4, the
\* double 0.6
C31_Witness ==
    /\ ScoredSales
    /\ conf_total = 10 /\ conf_recent = 0 /\ conf_days = 30
    /\ conf_score = Fdiv(6, 10)

\* C32: with recent_count and days_since_last held fixed, the score of
\* n + 1 sales is at least the score of n sales, for every n >= 0.
C32_MonotoneInN ==
    conf_score # NoScore =>
        ~Flt(_calculate_confidence(conf_total + 1, conf_recent, conf_days), conf_score)

\* the score grows with one more sale: 5 sales against 6, the last 20 days ago
C32_Witness ==
    /\ conf_score # NoScore
    /\ conf_total = 5 /\ conf_recent = 1 /\ conf_days = 20
    /\ Flt(conf_score, _calculate_confidence(conf_total + 1, conf_recent, conf_days))

----------------------------------------------------------------------------
(* Normalization *)

\* C33: normalizing a normalized name changes nothing:
\* normalize(normalize(r)) = normalize(r) for every raw name r, those
\* included whose noise tokens or override keys only appear once a token has
\* been stripped.
C33_Idempotent == norm_calls = 2 => norm_out = norm_in

----------------------------------------------------------------------------
(* The digest timer *)

\* a digest is due: none was sent yet, or six hours have passed since the last
DigestDue == should_send(_last_digest_at, digest_now)

\* the scanner is about to run a scan cycle
ScannerTicks == digest_pc = "scan"

\* C34: the scanner calls send_if_due after every scan: while it keeps
\* ticking, a digest that is due is sent, after which none is due for six
\* hours; no two digests are less than six hours apart.
C34_DigestOnTimer ==
    /\ (ScannerTicks /\ DigestDue) ~> ~DigestDue
    /\ [](\A i \in 1..Len(digests) : \A j \in 1..Len(digests) :
            i < j => digests[j] - digests[i] >= digest_interval_hours)

----------------------------------------------------------------------------
(* The escrow deals *)

\* the steps of the documented flow
StatusFlow ==
    {<<"created", "waiting_deposit">>, <<"waiting_deposit", "processing">>,
     <<"processing", "completed">>}

BothDeposited(deal) == deal.is_initiator_deposited /\ deal.is_counterparty_deposited

\* C35: every deal follows created -> waiting_deposit -> processing ->
\* completed: in waiting_deposit only the initiator has deposited, in
\* processing both sides have, and a check_deposit changes the status by one
\* step of the flow only, so completed is reached from processing alone,
\* whatever the order of the initiator's and the counterparty's calls.
C35_StatusFlow ==
    /\ \A d \in DealIds :
          /\ deals[d].status = "waiting_deposit" =>
                deals[d].is_initiator_deposited /\ ~deals[d].is_counterparty_deposited
          /\ deals[d].status = "processing" => BothDeposited(deals[d])
    /\ escrow_last.outcome = "ok" /\ escrow_last.after.status # escrow_last.before.status
          => <<escrow_last.before.status, escrow_last.after.status>> \in StatusFlow

\* C38: when no check_deposit is in progress, a deal with both deposit flags
\* set is completed, also when the two confirmations ran in overlapping
\* sessions; and a check_deposit on a completed or cancelled deal fails and
\* leaves the deal as it was.
C38_BothDepositedCompleted ==
    /\ NoCallInProgress =>
          \A d \in DealIds : BothDeposited(deals[d]) => deals[d].status = "completed"
    /\ escrow_last.outcome # "none" /\ Closed(escrow_last.before) =>
          /\ escrow_last.outcome = "ValueError"
          /\ escrow_last.after = escrow_last.before

----------------------------------------------------------------------------
(* The deposit memo *)

UpperHexDigits == Digits \cup {"A", "B", "C", "D", "E", "F"}

\* the value of a hexadecimal digit of either case
HexValue(c) ==
    CASE c \in {"a", "A"} -> 10 [] c \in {"b", "B"} -> 11 [] c \in {"c", "C"} -> 12
      [] c \in {"d", "D"} -> 13 [] c \in {"e", "E"} -> 14 [] c \in {"f", "F"} -> 15
      [] OTHER -> CHOOSE n \in 0..9 : ToString(n) = c

\* C36: the memo is "GS-" followed by the first 12 hexadecimal digits of the
\* UUID drawn, in upper case, 15 characters in all; for the UUID of
\* test_generate_memo it is GS-123456781234.
C36_Memo ==
    memo # << >> =>
        /\ Len(memo) = 15
        /\ SubSeq(memo, 1, 3) = <<"G", "S", "-">>
        /\ \A i \in 1..12 :
              /\ memo[3 + i] \in UpperHexDigits
              /\ HexValue(memo[3 + i]) = HexValue(memo_uuid[i])
        /\ memo_uuid = TestUuidHex =>
              memo = <<"G", "S", "-", "1", "2", "3", "4", "5", "6", "7", "8", "1", "2", "3", "4">>

\* a UUID with letters in its first twelve digits, another digit after them
C36_Witness ==
    /\ memo = <<"G", "S", "-", "A", "2", "3", "4", "5", "6", "7", "8", "1", "2", "F", "A">>
    /\ memo_uuid[14] = "0"

----------------------------------------------------------------------------
(* The expected price of a rare listing *)

\* the expected price by the rule: the 30-day median of the sales of the
\* (slug, tier) when at least 3 sales back it, else common_floor x premium
ExpectedByRule(tier) ==
    IF rare_last.sale_info.count >= 3 THEN rare_last.sale_info.median
    ELSE IF tier = "ultra_rare" THEN 5 * rare_last.common_floor
    ELSE (5 * rare_last.common_floor) \div 2

\* expected > price and (expected - price) / expected >= 0.30
FloorDiscount(l) ==
    /\ ExpectedByRule(l.rarity_tier) > l.price_ton
    /\ 10 * (ExpectedByRule(l.rarity_tier) - l.price_ton) >= 3 * ExpectedByRule(l.rarity_tier)

\* no alert of the NFT in the 4 hours before the call
NotSuppressed(l) ==
    \/ rare_last.alerted[l.nft_address] = NeverAlerted
    \/ rare_last.now - rare_last.alerted[l.nft_address] >= 4

\* C37 as stated: for each active rare or ultra_rare listing that is not
\* suppressed, a rare_at_floor alert is emitted if and only if expected >
\* price and (expected - price) / expected >= 0.30, expected being the median
\* of the sales when at least 3 sales back it and common_floor x premium
\* otherwise; also when the collection has no active common-tier listing and
\* the median is backed by 3 sales.
C37_Original ==
    \A l \in rare_last.rare_listings :
        NotSuppressed(l) => (l.nft_address \in rare_last.alerts <=> FloorDiscount(l))

\* C37: for each active rare or ultra_rare listing that is not suppressed
\* and whose collection has an active common-tier listing, a rare_at_floor
\* alert is emitted if and only if expected > price and (expected - price) /
\* expected >= 0.30, with expected as above; for a collection with no active
\* common-tier listing no alert is emitted.
C37_ExpectedPrice ==
    \A l \in rare_last.rare_listings :
        NotSuppressed(l) =>
            (l.nft_address \in rare_last.alerts
                <=> rare_last.common_floor > 0 /\ FloorDiscount(l))

\* a call that alerts the rare listing against the median of three sales and
\* leaves out the ultra rare one, which is above that median
C37_Witness ==
    /\ rare_last.common_floor > 0
    /\ rare_last.sale_info.count = 3
    /\ rare_last.alerts = {"EQ-rare"}
    /\ \E l \in rare_last.rare_listings :
          l.nft_address = "EQ-ultra" /\ l.price_ton > rare_last.sale_info.median

----------------------------------------------------------------------------
(* The cooldown of a slug under overlapping requests *)

\* C39: at most one alert per slug reaches the sink within any 24 hours,
\* also when alert_opportunity is called by overlapping requests for the
\* same slug: two messages of a slug are at least 24 hours apart.
C39_SlugCooldown ==
    \A i, j \in DOMAIN published_at :
        (i < j /\ published[i].slug = published[j].slug)
            => published_at[j] - published_at[i] >= AlertCooldown

\* two requests have each called alert_opportunity for the slug at the same
\* time, the sink configured: the call of each passed the cooldown, raised in
\* _format_message before its await and left the slug untracked, and no
\* message has reached the sink
C39_Witness ==
    /\ sink
    /\ alert_now = 0
    /\ \E q, r \in RequestIds :
          /\ q # r
          /\ alert_calls[q].ended = "raised"
          /\ alert_calls[r].ended = "raised"
          /\ alert_calls[q].deal.slug = alert_calls[r].deal.slug
    /\ _recent_alerts[Slug] = NoAlert
    /\ published = << >>

----------------------------------------------------------------------------
(* The per-item fetch phase ends *)

\* the gather is over: no task is left and every permit is back
AllPermitsFree ==
    /\ queued = NoTasks /\ waiting = NoTasks /\ in_flight = NoTasks
    /\ _global_sem = GLOBAL_CONCURRENCY
    /\ \A s \in ItemSources : _source_sems[s] = PER_SOURCE_CONCURRENCY(s)

\* the steps that the enqueued tasks still have to take: three for a task
\* that waits for the global semaphore, two for one that waits for the
\* semaphore of its source, one for a running one
StepsLeft == 3 * Total(queued) + 2 * Total(waiting) + Total(in_flight)

\* C40: the per-item fetch phase cannot deadlock or starve. While a task is
\* left, one can go on: take the global semaphore, take the semaphore of its
\* source, or return from the adapter and release both; each such step brings
\* the tasks one step nearer the end, so under the event loop, which runs
\* every task that can go on, every task acquires both, runs and releases
\* both; when no step is left the gather is complete and all permits are free.
C40_FetchPhaseCompletes ==
    /\ [](StepsLeft > 0 => ENABLED (AcquireGlobal \/ AcquireSource \/ Release))
    /\ [][StepsLeft > 0 => StepsLeft' = StepsLeft - 1]_vars
    /\ [](StepsLeft = 0 => AllPermitsFree)
    /\ [](/\ _global_sem + Total(waiting) + Total(in_flight) = GLOBAL_CONCURRENCY
          /\ \A s \in ItemSources :
                _source_sems[s] + in_flight[s] = PER_SOURCE_CONCURRENCY(s))

\* the global semaphore is exhausted: all of its permits are held by tasks of
\* Fragment, all but the running ones waiting for the semaphore of the
\* source, and the tasks left are still enqueued
C40_Witness ==
    /\ _global_sem = 0
    /\ queued["Fragment"] = MaxSlugs - GLOBAL_CONCURRENCY
    /\ in_flight["Fragment"] = PER_SOURCE_CONCURRENCY("Fragment")
    /\ waiting["Fragment"] = GLOBAL_CONCURRENCY - PER_SOURCE_CONCURRENCY("Fragment")

====
